---- MODULE Spec2Model ----
(***************************************************************************)
(* A model of ril-bot's image resolver (src/utils/resolver.rs) and of the  *)
(* helpers it calls (src/utils/helpers.rs).                                *)
(*                                                                         *)
(* ImageResolver::resolve is an async function.  The model holds the       *)
(* position of one resolve call between two collaborator calls (identity   *)
(* conversion, HTTP GET, attachment download); one action is the code      *)
(* between two such calls, and draws the collaborator's answer.            *)
(*                                                                         *)
(* Strings are sequences of atoms.  An atom is a piece of text no regular  *)
(* expression or prefix test of the program looks into: a single character *)
(* where the program looks at characters ("<", "a", ":", a digit), a       *)
(* longer literal elsewhere ("https", "tenor.com", ".webp").               *)
(***************************************************************************)
EXTENDS Integers, Sequences, FiniteSets, TLC

(***************************************************************************)
(* Option and Result                                                       *)
(***************************************************************************)
None == <<>>
Some(x) == <<x>>
IsSome(o) == Len(o) = 1
Unwrap(o) == o[1]

\* utils::Error; size/limit are the fields of ImageTooLarge, token the field
\* of EmojiParseError
Error(kind, size, limit, token) ==
    [kind |-> kind, size |-> size, limit |-> limit, token |-> token]

ImageTooLarge(size, limit) == Error("ImageTooLarge", size, limit, <<>>)
EmojiParseError(argument) == Error("EmojiParseError", 0, 0, argument)
FetchUrlError == Error("FetchUrlError", 0, 0, <<>>)
InvalidContentType == Error("InvalidContentType", 0, 0, <<>>)
RequestError == Error("RequestError", 0, 0, <<>>)
SerenityError == Error("SerenityError", 0, 0, <<>>)
\* the Err of an ArgumentConvert implementation (it never leaves try_conversions)
ConvertError == Error("ConvertError", 0, 0, <<>>)

\* Result<Option<T>, Error>; a Result<T, Error> is Ok(Some(t))
Ok(opt) == [ok |-> TRUE, val |-> opt, err |-> None]
Err(e) == [ok |-> FALSE, val |-> None, err |-> Some(e)]

(***************************************************************************)
(* Bounds and program constants                                            *)
(***************************************************************************)
\* the longest list of attachments, of stickers and of embeds of a message
MaxItems == 2

DEFAULT_MAX_SIZE == 16000000

\* the sizes a declared length, a Content-Length or a body takes
Sizes == {DEFAULT_MAX_SIZE - 1, DEFAULT_MAX_SIZE}

(***************************************************************************)
(* Strings                                                                 *)
(***************************************************************************)
Rep(c, n) == [i \in 1..n |-> c]

Digit == {"0", "1", "2", "3", "4", "5", "6", "7", "8", "9"}
Letter == {"a", "b", "c", "d", "e", "f", "g", "h", "i", "j", "k", "l", "m",
           "n", "o", "p", "q", "r", "s", "t", "u", "v", "w", "x", "y", "z",
           "A", "B", "C", "D", "E", "F", "G", "H", "I", "J", "K", "L", "M",
           "N", "O", "P", "Q", "R", "S", "T", "U", "V", "W", "X", "Y", "Z"}
\* [a-zA-Z0-9_]
WordChar == Letter \cup Digit \cup {"_"}
\* \s
Space == {" ", "\t", "\n"}

\* str::starts_with for a prefix that is one atom
starts_with(s, prefix) == Len(s) >= 1 /\ s[1] = prefix

\* str::replace for a pattern and a replacement that are one atom each
replace(s, from, to) == [i \in DOMAIN s |-> IF s[i] = from THEN to ELSE s[i]]

RECURSIVE trim_start_matches(_, _)
trim_start_matches(s, c) ==
    IF Len(s) >= 1 /\ s[1] \in c THEN trim_start_matches(Tail(s), c) ELSE s

RECURSIVE trim_end_matches(_, _)
trim_end_matches(s, c) ==
    IF Len(s) >= 1 /\ s[Len(s)] \in c
    THEN trim_end_matches(SubSeq(s, 1, Len(s) - 1), c)
    ELSE s

trim(s) == trim_end_matches(trim_start_matches(s, Space), Space)

\* case folding of the atoms the case-insensitive expressions meet
Lower(c) ==
    CASE c = "HTTPS" -> "https"
      [] c = "HTTP" -> "http"
      [] c = "Tenor.com" -> "tenor.com"
      [] c = "Imgur.com" -> "imgur.com"
      [] OTHER -> c

(***************************************************************************)
(* The regular expressions of resolver.rs                                  *)
(***************************************************************************)
All(s, set) == \A i \in DOMAIN s : s[i] \in set

\* the first position at or after i where s holds c; 0 when there is none
RECURSIVE IndexFrom(_, _, _)
IndexFrom(s, c, i) ==
    IF i > Len(s) THEN 0
    ELSE IF s[i] = c THEN i
    ELSE IndexFrom(s, c, i + 1)

\* Regex::captures of ^<(a?):([a-zA-Z0-9_]{1,32}):([0-9]{15,20})>$ : the
\* groups 0..3 at the places 1..4, each Some(text) when the group took part
\* in the match.  (a?) takes part in every match, with the empty text when
\* there is no a.
EMOJI_REGEX(s) ==
    LET n == Len(s)
        a == IF n >= 2 /\ s[2] = "a" THEN 1 ELSE 0
        c1 == 2 + a
        c2 == IndexFrom(s, ":", c1 + 1)
        name == SubSeq(s, c1 + 1, c2 - 1)
        id == SubSeq(s, c2 + 1, n - 1)
    IN  IF /\ n >= c1
           /\ s[1] = "<"
           /\ s[c1] = ":"
           /\ c2 > 0
           /\ Len(name) >= 1 /\ Len(name) <= 32
           /\ All(name, WordChar)
           /\ s[n] = ">"
           /\ Len(id) >= 15 /\ Len(id) <= 20
           /\ All(id, Digit)
        THEN Some(<<Some(s), Some(SubSeq(s, 2, 1 + a)), Some(name), Some(id)>>)
        ELSE None

\* Captures::get(i)
get(captures, i) == captures[i + 1]

\* ^([0-9]{14,20})$ : an expression that takes one digit fewer
ID_REGEX_m(s) ==
    IF Len(s) >= 14 /\ Len(s) <= 20 /\ All(s, Digit) THEN Some(s) ELSE None

\* Regex::find of ^([0-9]{15,20})$
ID_REGEX(s) ==
    IF Len(s) >= 15 /\ Len(s) <= 20 /\ All(s, Digit) THEN Some(s) ELSE None

\* the part of a page url in front of the host: https?://(www\.)?  The
\* result is the number of atoms it takes, 0 when it does not match.
PagePrefix(s) ==
    IF Len(s) >= 2 /\ Lower(s[1]) \in {"http", "https"} /\ s[2] = "://"
    THEN IF Len(s) >= 3 /\ Lower(s[3]) = "www." THEN 3 ELSE 2
    ELSE 0

\* Regex::is_match of ^https?://(www\.)?tenor\.com/view/\S+/?$ , case
\* insensitive
TENOR_PAGE_REGEX(s) ==
    LET p == PagePrefix(s)
    IN  /\ p > 0
        /\ Len(s) >= p + 3
        /\ Lower(s[p + 1]) = "tenor.com"
        /\ Lower(s[p + 2]) = "/view/"
        /\ \A i \in (p + 3)..Len(s) : s[i] \notin Space

\* the hosts imgur.com matches: its dot is not escaped
ImgurHost == {"imgur.com", "imgur-com"}

\* Regex::captures of ^https?://(www\.)?imgur.com/(\S+)/?$ , case
\* insensitive: group 2, which is greedy and takes the rest of the text
IMGUR_PAGE_REGEX(s) ==
    LET p == PagePrefix(s)
    IN  IF /\ p > 0
           /\ Len(s) >= p + 3
           /\ Lower(s[p + 1]) \in ImgurHost
           /\ s[p + 2] = "/"
           /\ \A i \in (p + 3)..Len(s) : s[i] \notin Space
        THEN Some(<<Some(s), IF p = 3 THEN Some(<<s[3]>>) ELSE None,
                    Some(SubSeq(s, p + 3, Len(s)))>>)
        ELSE None

\* the match of https?://(www\.)?c\.tenor\.com/\S+/\S+\.gif/? at the start
\* of one word of a page
TenorAsset(word) ==
    LET p == PagePrefix(word)
    IN  IF /\ p > 0
           /\ Len(word) >= p + 6
           /\ Lower(word[p + 1]) = "c.tenor.com"
           /\ word[p + 2] = "/"
           /\ word[p + 3] \notin Space
           /\ word[p + 4] = "/"
           /\ word[p + 5] \notin Space
           /\ Lower(word[p + 6]) = ".gif"
        THEN Some(SubSeq(word, 1,
                  IF Len(word) >= p + 7 /\ word[p + 7] = "/" THEN p + 7 ELSE p + 6))
        ELSE None

\* the rightmost match of the tenor asset expression in a page
RECURSIVE TENOR_ASSET_URL_m(_)
TENOR_ASSET_URL_m(text) ==
    IF text = <<>> THEN None
    ELSE IF IsSome(TENOR_ASSET_URL_m(Tail(text))) THEN TENOR_ASSET_URL_m(Tail(text))
    ELSE TenorAsset(Head(text))

\* Regex::find of the tenor asset expression in a page, a sequence of words:
\* the leftmost match
RECURSIVE TENOR_ASSET_URL(_)
TENOR_ASSET_URL(text) ==
    IF text = <<>> THEN None
    ELSE IF IsSome(TenorAsset(Head(text))) THEN TenorAsset(Head(text))
    ELSE TENOR_ASSET_URL(Tail(text))

\* WS_REGEX.split(content).next(): the text in front of the first run of
\* white space (empty when the content starts with white space)
RECURSIVE FirstToken(_)
FirstToken(content) ==
    IF content = <<>> \/ Head(content) \in Space THEN <<>>
    ELSE <<Head(content)>> \o FirstToken(Tail(content))

WS_REGEX_split_next(content) == Some(FirstToken(content))

(***************************************************************************)
(* The texts the model draws arguments and message contents from           *)
(***************************************************************************)
EmojiStatic == <<"<", ":", "n", ":">> \o Rep("7", 15) \o <<">">>
EmojiAnimated == <<"<", "a", ":", "n", ":">> \o Rep("7", 15) \o <<">">>
Snowflake == Rep("7", 15)
Snowflake20 == Rep("7", 20)
ShortId == Rep("7", 14)
LongId == Rep("7", 21)
Hello == <<"h", "e", "l", "l", "o">>
TenorPage == <<"https", "://", "tenor.com", "/view/", "cat-gif-1">>
ImgurPage == <<"HTTPS", "://", "www.", "imgur.com", "/", "aB3">>
PlainUrl == <<"<", "https", "://", "example.org", "/", "cat.png", ">">>

\* Option<String>: the first argument of a command
Args == {EmojiStatic, EmojiAnimated, Snowflake, Snowflake20, ShortId, LongId,
         Hello, TenorPage, ImgurPage, PlainUrl}

\* Message::content of a referenced message
Contents == {<<>>,
             Hello \o <<" ">> \o PlainUrl,
             <<" ">> \o Hello,
             EmojiStatic,
             TenorPage \o <<" ", "l", "o", "l">>}

\* the pages a text/html response holds
AssetUrl == <<"https", "://", "c.tenor.com", "/", "Xy1", "/", "cat", ".gif">>
AssetUrl2 == <<"https", "://", "c.tenor.com", "/", "Zz9", "/", "dog", ".gif">>
Pages == { <<Hello>>, <<Hello, AssetUrl, PlainUrl, AssetUrl2>> }

(***************************************************************************)
(* What the collaborators hand to the resolver                             *)
(***************************************************************************)
\* the value of a Content-Type header, or Attachment::content_type
ContentTypes == { <<"image/", "png">>, <<"text/", "html">> }

\* a reqwest response: send is false when the request failed in transport;
\* success is StatusCode::is_success; content_type and content_length are
\* the headers; body is None when reading it fails, else its length and,
\* for a page, its words
Response(send, success, content_type, content_length, body) ==
    [send |-> send, success |-> success, content_type |-> content_type,
     content_length |-> content_length, body |-> body]

Body(len, text) == [len |-> len, text |-> text]

Responses ==
    { Response(FALSE, FALSE, None, None, None),
      Response(TRUE, FALSE, None, None, None) }
    \cup { Response(TRUE, TRUE, Some(<<"image/", "png">>), cl, b) :
             cl \in {None} \cup {Some(n) : n \in Sizes},
             b \in {None} \cup {Some(Body(n, <<>>)) : n \in Sizes} }
    \cup { Response(TRUE, TRUE, Some(<<"text/", "html">>), None, b) :
             b \in {None} \cup
                   {Some(Body(DEFAULT_MAX_SIZE - 1, t)) : t \in Pages} }
    \cup { Response(TRUE, TRUE, None, None,
                    Some(Body(DEFAULT_MAX_SIZE - 1, <<>>))) }

\* the answers drawn for a request: all of them when the request is made,
\* one that is never read when it is not
Answers(made) ==
    IF made THEN Responses ELSE { Response(FALSE, FALSE, None, None, None) }

\* an avatar hash; an animated one starts with a_
Hashes == { <<"0f3c">>, <<"a_", "0f3c">> }

\* serenity's User and Member, as far as the resolver reads them
Users == { [avatar |-> a] : a \in {None} \cup {Some(h) : h \in Hashes} }
Members == { [avatar |-> a, user |-> u] :
               a \in {None} \cup {Some(h) : h \in Hashes}, u \in Users }
\* serenity's Emoji
Emojis == { [id |-> <<"4", "2">>, animated |-> an] : an \in BOOLEAN }

\* serenity's Attachment: the declared content type and size
Attachments == { [content_type |-> c, size |-> n] :
                   c \in {None} \cup {Some(t) : t \in ContentTypes},
                   n \in Sizes }
\* serenity's StickerItem: a Lottie sticker has no image url
StickerItems == { [format_type |-> f] : f \in {"Png", "Lottie"} }
\* serenity's Embed
EmbedImageUrl == <<"https", "://", "example.org", "/", "embed.png">>
EmbedThumbnailUrl == <<"https", "://", "example.org", "/", "thumb.png">>
Embeds == { [image |-> i, thumbnail |-> t] :
              i \in {None, Some([url |-> EmbedImageUrl])},
              t \in {None, Some([url |-> EmbedThumbnailUrl])} }

\* the lists of at most MaxItems elements of S
Lists(S) == UNION { [1..n -> S] : n \in 0..MaxItems }

\* the bytes of an image, with where they came from and the content type
\* they were served or declared with
Bytes(url, len, content_type) ==
    [url |-> url, len |-> len, content_type |-> content_type]

\* the downloaded length alone
Max_m(a, b) == b

\* u64::max
Max(a, b) == IF a >= b THEN a ELSE b

(***************************************************************************)
(* helpers.rs                                                              *)
(***************************************************************************)
\* url_to_bytes, for the response the GET of url got
url_to_bytes(url, response) ==
    IF ~response.send THEN Err(RequestError)
    ELSE IF response.success
    THEN IF IsSome(response.body)
         THEN Ok(Some(Bytes(url, Unwrap(response.body).len,
                            response.content_type)))
         ELSE Err(RequestError)
    ELSE Err(FetchUrlError)

(***************************************************************************)
(* resolver.rs: the functions without a suspension point of their own      *)
(***************************************************************************)
\* the header as resolve_url reads it: "unknown" when absent
ContentTypeOrUnknown(content_type) ==
    IF IsSome(content_type) THEN Unwrap(content_type) ELSE <<"unknown">>

\* the url resolve_url requests
ResolveUrlTarget(arg) ==
    trim(trim_end_matches(trim_start_matches(arg, {"<"}), {">"}))

\* the url of the second request of resolve_url, None when it makes none
ResolveUrlAsset(arg, response) ==
    LET a == ResolveUrlTarget(arg)
    IN  IF /\ response.send /\ response.success
           /\ ~starts_with(ContentTypeOrUnknown(response.content_type), "image/")
        THEN IF TENOR_PAGE_REGEX(a)
             THEN IF IsSome(response.body)
                  THEN TENOR_ASSET_URL(Unwrap(response.body).text)
                  ELSE None
             ELSE IF IsSome(IMGUR_PAGE_REGEX(a))
             THEN IF IsSome(get(Unwrap(IMGUR_PAGE_REGEX(a)), 2))
                  THEN Some(<<"https://i.imgur.com/">>
                            \o Unwrap(get(Unwrap(IMGUR_PAGE_REGEX(a)), 2))
                            \o <<".gif">>)
                  ELSE None
             ELSE None
        ELSE None

\* ImageResolver::resolve_url: response answers the GET of the argument,
\* asset_response the GET of the tenor or imgur asset when there is one
resolve_url(max_size, arg, response, asset_response) ==
    LET a == ResolveUrlTarget(arg)
    IN  IF ~response.send THEN Err(FetchUrlError)
        ELSE IF response.success
        THEN IF starts_with(ContentTypeOrUnknown(response.content_type), "image/")
             THEN LET content_length ==
                          IF IsSome(response.content_length)
                          THEN Unwrap(response.content_length) ELSE 0
                  IN  IF ~IsSome(response.body) THEN Err(RequestError)
                      ELSE LET size == Max(content_length, Unwrap(response.body).len)
                           IN  IF size >= max_size
                               THEN Err(ImageTooLarge(size, max_size))
                               ELSE Ok(Some(Bytes(a, Unwrap(response.body).len,
                                                  response.content_type)))
             ELSE IF TENOR_PAGE_REGEX(a)
             THEN IF ~IsSome(response.body) THEN Err(RequestError)
                  ELSE IF IsSome(ResolveUrlAsset(arg, response))
                  THEN url_to_bytes(Unwrap(ResolveUrlAsset(arg, response)),
                                    asset_response)
                  ELSE Err(InvalidContentType)
             ELSE IF IsSome(IMGUR_PAGE_REGEX(a))
             THEN IF IsSome(ResolveUrlAsset(arg, response))
                  THEN url_to_bytes(Unwrap(ResolveUrlAsset(arg, response)),
                                    asset_response)
                  ELSE Err(InvalidContentType)
             ELSE Err(InvalidContentType)
        ELSE Err(FetchUrlError)

\* the place of the first attachment at or after i whose declared content
\* type starts with image/ ; 0 when there is none
RECURSIVE FirstImage(_, _)
FirstImage(attachments, i) ==
    IF i > Len(attachments) THEN 0
    ELSE IF starts_with(ContentTypeOrUnknown(attachments[i].content_type), "image/")
    THEN i
    ELSE FirstImage(attachments, i + 1)

\* the url an attachment is downloaded from
AttachmentUrl(i) == <<"attachment", ToString(i)>>

\* the first image attachment, downloaded whatever its declared size
Downloaded_m(max_size, attachments) == FirstImage(attachments, 1)

\* the attachment get_file_image downloads, 0 when it downloads none
Downloaded(max_size, attachments) ==
    LET i == FirstImage(attachments, 1)
    IN  IF i > 0 /\ attachments[i].size < max_size THEN i ELSE 0

\* ImageResolver::get_file_image: download is what Attachment::download
\* gives for the file the loop stops at, None when it fails, else the
\* length of the bytes
get_file_image(max_size, attachments, download) ==
    LET i == FirstImage(attachments, 1)
    IN  IF i = 0 THEN Ok(None)
        ELSE IF attachments[i].size < max_size
        THEN IF ~IsSome(download) THEN Err(SerenityError)
             ELSE LET size == Unwrap(download)
                  IN  IF size < max_size
                      THEN Ok(Some(Bytes(AttachmentUrl(i), size,
                                         attachments[i].content_type)))
                      ELSE Err(ImageTooLarge(size, max_size))
        ELSE Err(ImageTooLarge(attachments[i].size, max_size))

\* serenity's StickerItem::image_url
image_url(sticker, i) ==
    IF sticker.format_type = "Lottie" THEN None
    ELSE Some(<<"https://cdn.discordapp.com/stickers/", ToString(i), ".png">>)

\* the url get_sticker_image fetches: that of the first sticker at or after i
\* that has one
RECURSIVE StickerUrl(_, _)
StickerUrl(stickers, i) ==
    IF i > Len(stickers) THEN None
    ELSE IF IsSome(image_url(stickers[i], i)) THEN image_url(stickers[i], i)
    ELSE StickerUrl(stickers, i + 1)

\* ImageResolver::get_sticker_image
get_sticker_image(stickers, response) ==
    IF IsSome(StickerUrl(stickers, 1))
    THEN url_to_bytes(Unwrap(StickerUrl(stickers, 1)), response)
    ELSE Ok(None)

\* the url get_embed_image resolves: the image, else the thumbnail, of the
\* first embed that has either
RECURSIVE EmbedUrl(_)
EmbedUrl(embeds) ==
    IF embeds = <<>> THEN None
    ELSE IF IsSome(Head(embeds).image)
    THEN Some([candidate |-> "embed.image", url |-> Unwrap(Head(embeds).image).url])
    ELSE IF IsSome(Head(embeds).thumbnail)
    THEN Some([candidate |-> "embed.thumbnail",
               url |-> Unwrap(Head(embeds).thumbnail).url])
    ELSE EmbedUrl(Tail(embeds))

\* ImageResolver::get_embed_image
get_embed_image(max_size, embeds, response, asset_response) ==
    IF IsSome(EmbedUrl(embeds))
    THEN resolve_url(max_size, Unwrap(EmbedUrl(embeds)).url, response, asset_response)
    ELSE Ok(None)

\* get_attachments without the test that the files gave no image
sticker_step_m(source, sticker_items) == sticker_items # <<>>

\* the conditions of get_attachments under which the sticker and the embed
\* step run
sticker_step(source, sticker_items) == source = None /\ sticker_items # <<>>
embed_step(source, embeds) == source = None /\ embeds # <<>>

\* serenity's User::face: the avatar (gif when animated, else webp) or the
\* default avatar
user_face(user) ==
    IF IsSome(user.avatar)
    THEN <<"https://cdn.discordapp.com/avatars/", "7", "/">>
         \o Unwrap(user.avatar)
         \o <<IF starts_with(Unwrap(user.avatar), "a_") THEN ".gif" ELSE ".webp",
              "?size=1024">>
    ELSE <<"https://cdn.discordapp.com/embed/avatars/", "0", ".png">>

\* serenity's Member::face: the guild avatar, else the user's face
member_face(member) ==
    IF IsSome(member.avatar)
    THEN <<"https://cdn.discordapp.com/guilds/", "3", "/users/", "7", "/avatars/">>
         \o Unwrap(member.avatar)
         \o <<IF starts_with(Unwrap(member.avatar), "a_") THEN ".gif" ELSE ".webp",
              "?size=1024">>
    ELSE user_face(member.user)

\* member_avatar_url reading the hash of the user alone
member_avatar_url_m(member) ==
    LET is_gif == IF IsSome(member.user.avatar)
                  THEN starts_with(Unwrap(member.user.avatar), "a_")
                  ELSE FALSE
    IN  replace(member_face(member), ".webp", IF is_gif THEN ".gif" ELSE ".png")

\* ImageResolver::member_avatar_url
member_avatar_url(member) ==
    LET av == IF IsSome(member.avatar) THEN member.avatar ELSE member.user.avatar
        is_gif == IF IsSome(av) THEN starts_with(Unwrap(av), "a_") ELSE FALSE
    IN  replace(member_face(member), ".webp", IF is_gif THEN ".gif" ELSE ".png")

\* ImageResolver::user_avatar_url
user_avatar_url(user) ==
    LET is_gif == IF IsSome(user.avatar)
                  THEN starts_with(Unwrap(user.avatar), "a_")
                  ELSE FALSE
    IN  replace(user_face(user), ".webp", IF is_gif THEN ".gif" ELSE ".png")

\* serenity's Emoji::url
emoji_url(emoji) ==
    <<"https://cdn.discordapp.com/emojis/">> \o emoji.id
    \o <<".", IF emoji.animated THEN "gif" ELSE "png">>

\* ImageResolver::convert_emoji, the (animated, id) it parses from the argument
convert_emoji_parse(argument) ==
    IF IsSome(EMOJI_REGEX(argument))
    THEN [animated |-> IsSome(get(Unwrap(EMOJI_REGEX(argument)), 1)),
          id |-> get(Unwrap(EMOJI_REGEX(argument)), 3)]
    ELSE IF IsSome(ID_REGEX(argument))
    THEN [animated |-> FALSE, id |-> ID_REGEX(argument)]
    ELSE [animated |-> FALSE, id |-> None]

\* ImageResolver::convert_emoji, the url it fetches or the error it ends with
\* before any fetch
convert_emoji_url(argument) ==
    LET parsed == convert_emoji_parse(argument)
    IN  IF ~IsSome(parsed.id) THEN Err(EmojiParseError(argument))
        ELSE Ok(Some(<<"https://cdn.discordapp.com/emojis/">>
                     \o Unwrap(parsed.id)
                     \o <<".", IF parsed.animated THEN "gif" ELSE "png">>))

\* the url try_conversions asks the emoji cdn for
emojicdn_url(arg) == <<"https://emojicdn.elk.sh/">> \o arg \o <<"?style=twitter">>

\* try_conversions without the arm that returns ImageTooLarge
url_step_m(r) == IF r.ok THEN "return" ELSE "none"

\* try_conversions, what it does with the result of resolve_url: "return"
\* when the function returns it (the bytes, or ImageTooLarge), "none" when
\* the conversions end without an image
url_step(r) ==
    IF r.ok THEN "return"
    ELSE IF Unwrap(r.err).kind = "ImageTooLarge" THEN "return"
    ELSE "none"

(***************************************************************************)
(* f64 arithmetic, as far as humanize_bytes and contain_size use it        *)
(*                                                                         *)
(* A natural number is written in binary as a sequence of bits, the most   *)
(* significant first and without leading zeros; an f64 is [m, e], the      *)
(* value of the bits m times 2^e, with at most 53 bits in m.  Every        *)
(* operation rounds to nearest, ties to even, as IEEE 754 does.            *)
(***************************************************************************)
\* the bits of a natural number below 2^30
Bits(n) ==
    LET len == CHOOSE k \in 0..30 : n < 2^k /\ (k = 0 \/ n >= 2^(k - 1))
    IN  [i \in 1..len |-> (n \div 2^(len - i)) % 2]

\* the number that at most 30 bits stand for
RECURSIVE ToNat(_)
ToNat(b) ==
    IF b = <<>> THEN 0
    ELSE IF Len(b) = 1 THEN b[1]
    ELSE LET h == Len(b) \div 2
         IN  ToNat(SubSeq(b, 1, h)) * 2^(Len(b) - h)
             + ToNat(SubSeq(b, h + 1, Len(b)))

\* b without its leading zeros
Strip(b) ==
    IF \A i \in DOMAIN b : b[i] = 0 THEN <<>>
    ELSE LET k == CHOOSE i \in DOMAIN b :
                      b[i] = 1 /\ \A j \in 1..(i - 1) : b[j] = 0
         IN  SubSeq(b, k, Len(b))

\* b + 1
Inc(b) ==
    IF \A i \in DOMAIN b : b[i] = 1 THEN <<1>> \o [i \in DOMAIN b |-> 0]
    ELSE LET k == CHOOSE i \in DOMAIN b :
                      b[i] = 0 /\ \A j \in (i + 1)..Len(b) : b[j] = 1
         IN  [i \in DOMAIN b |-> IF i < k THEN b[i] ELSE IF i = k THEN 1 ELSE 0]

\* the bytes of b, the most significant first, and the bits of bytes
Digits(b) ==
    LET pad == (8 - (Len(b) % 8)) % 8
        padded == [i \in 1..pad |-> 0] \o b
    IN  [j \in 1..(Len(padded) \div 8) |-> ToNat(SubSeq(padded, 8 * j - 7, 8 * j))]

Expand(digits) ==
    [i \in 1..(8 * Len(digits)) |->
        (digits[((i - 1) \div 8) + 1] \div 2^(7 - ((i - 1) % 8))) % 2]

\* the bytes d times k, from the place i down, with the carry so far
RECURSIVE MulFrom(_, _, _, _)
MulFrom(d, k, i, carry) ==
    IF i = 0 THEN [carry |-> carry, q |-> <<>>]
    ELSE LET t == d[i] * k + carry
             up == MulFrom(d, k, i - 1, t \div 256)
         IN  [carry |-> up.carry, q |-> Append(up.q, t % 256)]

\* b times k, for a k below 2^20
MulSmall(b, k) ==
    LET m == MulFrom(Digits(b), k, Len(Digits(b)), 0)
    IN  Strip(Bits(m.carry) \o Expand(m.q))

\* the n bytes after the point of r / d, and the remainder left
RECURSIVE DivFrom(_, _, _)
DivFrom(r, d, n) ==
    IF n = 0 THEN [q |-> <<>>, r |-> r]
    ELSE LET rest == DivFrom((r * 256) % d, d, n - 1)
         IN  [q |-> <<(r * 256) \div d>> \o rest.q, r |-> rest.r]

\* the number of binary places a quotient is computed to before it is
\* rounded: more than the 53 an f64 keeps, for every divisor of the model
Places == 96

F64(m, e) == [m |-> m, e |-> e]

\* the f64 nearest to bits * 2^e, a non-zero rest below the bits being
\* given by sticky
Round(bits, e, sticky) ==
    IF Len(bits) <= 53 THEN F64(bits, e)
    ELSE LET keep == SubSeq(bits, 1, 53)
             rest == SubSeq(bits, 54, Len(bits))
             more == sticky \/ \E i \in 2..Len(rest) : rest[i] = 1
             up == rest[1] = 1 /\ (more \/ keep[53] = 1)
             m == IF up THEN Inc(keep) ELSE keep
         IN  IF Len(m) > 53
             THEN F64(SubSeq(m, 1, 53), e + Len(rest) + 1)
             ELSE F64(m, e + Len(rest))

\* f64::from(u32)
from_u32(n) == F64(Bits(n), 0)

\* u64 as f64
as_f64(size) == Round(size, 0, FALSE)

\* f64::from(a) / f64::from(b)
Div(a, b) ==
    LET d == DivFrom(a % b, b, Places \div 8)
    IN  Round(Strip(Bits(a \div b) \o Expand(d.q)), 0 - Places, d.r # 0)

\* x * f64::from(k)
Mul(x, k) == Round(MulSmall(x.m, k), x.e, FALSE)

\* x <= 2^n
Below_m(x, n) ==
    \/ x.m = <<>>
    \/ Len(x.m) + x.e <= n
    \/ Len(x.m) + x.e = n + 1 /\ \A i \in 2..Len(x.m) : x.m[i] = 0

\* x < 2^n
Below(x, n) == x.m = <<>> \/ Len(x.m) + x.e <= n

\* x.ceil() as u32
ceil(x) ==
    IF x.e >= 0 THEN ToNat(x.m \o [i \in 1..x.e |-> 0])
    ELSE IF Len(x.m) <= 0 - x.e THEN (IF x.m = <<>> THEN 0 ELSE 1)
    ELSE LET n == Len(x.m) + x.e
             whole == ToNat(SubSeq(x.m, 1, n))
         IN  IF \E i \in (n + 1)..Len(x.m) : x.m[i] = 1
             THEN whole + 1 ELSE whole

\* format!("{x:.2}") of an x below 1024: the hundredths of x, rounded to
\* nearest, ties to even
Hundredths(x) ==
    LET p == MulSmall(x.m, 100)
    IN  IF x.e >= 0 THEN ToNat(p \o [i \in 1..x.e |-> 0])
        ELSE LET n == Len(p) + x.e
                 whole == IF n <= 0 THEN 0 ELSE ToNat(SubSeq(p, 1, n))
                 rest == IF n <= 0
                         THEN [i \in 1..(0 - n) |-> 0] \o p
                         ELSE SubSeq(p, n + 1, Len(p))
                 more == \E i \in 2..Len(rest) : rest[i] = 1
                 up == rest[1] = 1 /\ (more \/ whole % 2 = 1)
             IN  IF up THEN whole + 1 ELSE whole

(***************************************************************************)
(* helpers.rs: humanize_bytes                                              *)
(***************************************************************************)
units == <<"B", "KB", "MB", "GB", "TB", "PB", "EB", "ZB", "YB">>

\* the text humanize_bytes returns: the hundredths of the number and the unit
Humanized(hundredths, unit) == [hundredths |-> hundredths, unit |-> unit]

\* the loop of humanize_bytes from the unit i on
RECURSIVE humanize_from(_, _)
humanize_from(size, i) ==
    IF i > Len(units) THEN Humanized(0, "NaN")
    ELSE IF Below(size, 10) THEN Humanized(Hundredths(size), units[i])
    ELSE humanize_from(F64(size.m, size.e - 10), i + 1)

\* humanize_bytes without the cast of the size to f64: the size is kept as it is
humanize_bytes_m(size) == humanize_from(F64(size, 0), 1)

\* humanize_bytes; size is a u64, in binary
humanize_bytes(size) == humanize_from(as_f64(size), 1)

(***************************************************************************)
(* functions.rs and imaging.rs: the frames and the image functions         *)
(***************************************************************************)
DEFAULT_MAX_DIM == 500
DEFAULT_MAX_FRAMES == 200

\* a frame of an ImageSequence: id is its place in the decoded image, hue
\* the degrees its hue was rotated by, inverted whether its pixels were
\* negated, delay and disposal what the decoder read for it
Frame(id, width, height) ==
    [id |-> id, width |-> width, height |-> height, hue |-> 0, inverted |-> FALSE,
     delay |-> 10 * id,
     disposal |-> IF id % 2 = 1 THEN "Background" ELSE "None"]

\* Frame::resize
resize(frame, width, height) == [frame EXCEPT !.width = width, !.height = height]

\* contain_size, the width every frame is resized to
resolved_width(frames, width, height) ==
    IF IsSome(width) THEN Unwrap(width)
    ELSE IF IsSome(height)
    THEN ceil(Mul(Div(Unwrap(height), frames[1].height), frames[1].width))
    ELSE frames[1].width

\* contain_size, the height every frame is resized to
resolved_height(frames, width, height) ==
    IF IsSome(height) THEN Unwrap(height)
    ELSE IF IsSome(width)
    THEN ceil(Mul(Div(Unwrap(width), frames[1].width), frames[1].height))
    ELSE frames[1].height

\* contain_size with a resize that needs both dimensions to reach the size
contain_size_m(frames, width, height) ==
    IF (width = None /\ height = None) \/ frames = <<>> THEN frames
    ELSE IF /\ frames[1].width >= resolved_width(frames, width, height)
            /\ frames[1].height >= resolved_height(frames, width, height)
    THEN [i \in DOMAIN frames |->
             resize(frames[i], resolved_width(frames, width, height),
                    resolved_height(frames, width, height))]
    ELSE frames

\* contain_size
contain_size(frames, width, height) ==
    IF width = None /\ height = None THEN frames
    ELSE IF frames = <<>> THEN frames
    ELSE IF \/ frames[1].width >= resolved_width(frames, width, height)
            \/ frames[1].height >= resolved_height(frames, width, height)
    THEN [i \in DOMAIN frames |->
             resize(frames[i], resolved_width(frames, width, height),
                    resolved_height(frames, width, height))]
    ELSE frames

\* invert_func
invert_func(frames) ==
    [i \in DOMAIN frames |-> [frames[i] EXCEPT !.inverted = ~frames[i].inverted]]

\* the degrees huerotate_func rotates by: (0..360).step_by(10)
Degrees == [k \in 1..36 |-> 10 * (k - 1)]

\* the frames, not cycled, zipped with the iterable
process_gif_m(frames, iterable) ==
    IF Len(frames) <= Len(iterable)
    THEN [k \in DOMAIN frames |-> <<frames[k], iterable[k]>>]
    ELSE [k \in DOMAIN iterable |-> <<frames[k], iterable[k]>>]

\* process_gif: the frames, cycled, zipped with the iterable
process_gif(frames, iterable) ==
    IF frames = <<>> THEN <<>>
    ELSE [k \in DOMAIN iterable |->
             <<frames[((k - 1) % Len(frames)) + 1], iterable[k]>>]

\* Image::hue_rotate
hue_rotate(frame, deg) == [frame EXCEPT !.hue = (frame.hue + deg) % 360]

\* huerotate_func
huerotate_func(frames) ==
    LET zipped == process_gif(frames, Degrees)
    IN  [k \in DOMAIN zipped |-> hue_rotate(zipped[k][1], zipped[k][2])]

\* caption_func: extra_height is the height the text layout asks for
caption_func(frames, extra_height) ==
    [i \in DOMAIN frames |->
        [frames[i] EXCEPT !.height = frames[i].height + extra_height]]

(***************************************************************************)
(* The state of one command's ImageResolver and of its resolve call        *)
(*                                                                         *)
(* The inputs of resolve (the argument, the lists of the invoking and of   *)
(* the referenced message, the contents of the referenced message, the     *)
(* author) are immutable and each is read at one place of the code; the    *)
(* action of that place draws it.  guild_id is read twice and is part of   *)
(* the state.                                                              *)
(***************************************************************************)
VARIABLES
    max_size,       \* ImageResolver::max_size
    arg_resolved,   \* ImageResolver::arg_resolved
    guild_id,       \* message.guild_id
    pc,             \* where resolve stands
    on,             \* the message resolve works on: "message" or "referenced"
    token,          \* arg of try_conversions
    cur,            \* what the last identity conversion or lookup returned
    source,         \* source of get_attachments
    result,         \* what resolve returned, None while it runs
    log,            \* the collaborator calls made so far, in order
    last,           \* the last candidate examined and what it gave
    found           \* the images the candidates gave so far, in order

(***************************************************************************)
(* The state of one ImageExecutor and of its run, of the command that      *)
(* owns both, and of one call of a function of functions.rs or helpers.rs  *)
(***************************************************************************)
VARIABLES
    stage,          \* where the command and ImageExecutor::run stand
    executor,       \* the ImageExecutor
    image,          \* image of run: the frames decoded, resized, transformed
    encoded,        \* what run encoded: None, or the format, frames and is_gif
    command_result,        \* the CommandResult returned, None before
    replies,        \* the messages sent to the channel, in order
    steps,          \* the steps of the command taken so far, in order
    call,           \* the function called alone and its parameters
    ret             \* what that function returned, None before

(***************************************************************************)
(* The invocations of commands that run at the same time, and what they    *)
(* share                                                                   *)
(***************************************************************************)
VARIABLES
    invocations,    \* the commands in flight, each with its own locals
    client          \* ctx.data: the reqwest::Client and the readers of its lock

bot == <<invocations, client>>

\* ctx.data as main leaves it
ClientData == [value |-> "reqwest::Client", readers |-> 0]

\* no other command is in flight
Single ==
    /\ invocations = <<>>
    /\ client = ClientData

job == <<stage, executor, image, encoded, command_result, replies, steps, call, ret>>

\* ImageExecutor::new
new ==
    [function |-> None, max_width |-> None, max_height |-> Some(DEFAULT_MAX_DIM),
     max_frames |-> Some(DEFAULT_MAX_FRAMES), arguments |-> <<>>]

\* nothing of a job or of a call has happened
Start(at) ==
    /\ stage = at
    /\ executor = new
    /\ image = <<>>
    /\ encoded = None
    /\ command_result = None
    /\ replies = <<>>
    /\ steps = <<>>

vars == <<max_size, arg_resolved, guild_id, pc, on, token, cur, source,
          result, log, last, found, stage, executor, image, encoded, command_result,
          replies, steps, call, ret, invocations, client>>

\* the strategies of resolve, in the order of its code
Strategies == <<"argument", "attachments", "stickers", "embeds",
                "referenced.attachments", "referenced.stickers",
                "referenced.embeds", "referenced.content", "avatar">>

Conversions == IF on = "message" THEN "argument" ELSE "referenced.content"
Of(list) == IF on = "message" THEN list ELSE "referenced." \o list

\* a collaborator call: the strategy and the candidate it is made for, the
\* operation, and the text or the url it is made with
Call(strategy, candidate, op, target) ==
    [strategy |-> strategy, candidate |-> candidate, op |-> op, target |-> target]

\* the candidate examined and its command_result
Candidate(strategy, candidate, outcome) ==
    /\ last' = Some([strategy |-> strategy, candidate |-> candidate,
                     outcome |-> outcome])
    /\ found' = IF outcome.ok /\ IsSome(outcome.val)
                THEN Append(found, Unwrap(outcome.val))
                ELSE found

\* resolve returns without an image
Return_m(r) ==
    /\ pc' = "done"
    /\ result' = Some(Ok(None))

\* resolve returns r
Return(r) ==
    /\ pc' = "done"
    /\ result' = Some(r)

\* ImageResolver::new, and the message the command was invoked with
Init ==
    /\ max_size = DEFAULT_MAX_SIZE
    /\ arg_resolved = TRUE
    /\ guild_id \in {None, Some(<<"3">>)}
    /\ pc = "resolve"
    /\ on = "message"
    /\ token = <<>>
    /\ cur = None
    /\ source = None
    /\ result = None
    /\ log = <<>>
    /\ last = None
    /\ found = <<>>
    /\ Start("idle")
    /\ call = None /\ ret = None
    /\ Single

\* resolve, up to the first conversion or to get_attachments
resolve(arg) ==
    /\ pc = "resolve"
    /\ IF IsSome(arg)
       THEN token' = Unwrap(arg) /\ pc' = "member"
       ELSE token' = token /\ pc' = "files"
    /\ UNCHANGED <<max_size, arg_resolved, guild_id, on, cur, source, result,
                   log, last, found>>
    /\ UNCHANGED <<job, bot>>

\* resolve called with any argument
Resolve == \E arg \in {None} \cup {Some(a) : a \in Args} : resolve(arg)

\* try_conversions: Member::convert
MemberConvert ==
    /\ pc = "member"
    /\ log' = Append(log, Call(Conversions, "member", "Member::convert", token))
    /\ \E out \in {None} \cup {Some(m) : m \in Members} :
           IF IsSome(out)
           THEN cur' = out /\ pc' = "member.avatar" /\ UNCHANGED <<last, found>>
           ELSE /\ cur' = None /\ pc' = "user"
                /\ Candidate(Conversions, "member", Err(ConvertError))
    /\ UNCHANGED <<max_size, arg_resolved, guild_id, on, token, source, result>>
    /\ UNCHANGED <<job, bot>>

\* try_conversions: the avatar of the member, and the return of resolve
MemberAvatar ==
    /\ pc = "member.avatar"
    /\ \E response \in Responses :
           LET url == member_avatar_url(Unwrap(cur))
               r == url_to_bytes(url, response)
           IN  /\ log' = Append(log, Call(Conversions, "member", "GET", url))
               /\ Candidate(Conversions, "member", r)
               /\ Return(r)
    /\ UNCHANGED <<max_size, arg_resolved, guild_id, on, token, cur, source>>
    /\ UNCHANGED <<job, bot>>

\* try_conversions: User::convert
UserConvert ==
    /\ pc = "user"
    /\ log' = Append(log, Call(Conversions, "user", "User::convert", token))
    /\ \E out \in {None} \cup {Some(u) : u \in Users} :
           IF IsSome(out)
           THEN cur' = out /\ pc' = "user.avatar" /\ UNCHANGED <<last, found>>
           ELSE /\ cur' = None /\ pc' = "emoji"
                /\ Candidate(Conversions, "user", Err(ConvertError))
    /\ UNCHANGED <<max_size, arg_resolved, guild_id, on, token, source, result>>
    /\ UNCHANGED <<job, bot>>

\* try_conversions: the avatar of the user, and the return of resolve
UserAvatar ==
    /\ pc = "user.avatar"
    /\ \E response \in Responses :
           LET url == user_avatar_url(Unwrap(cur))
               r == url_to_bytes(url, response)
           IN  /\ log' = Append(log, Call(Conversions, "user", "GET", url))
               /\ Candidate(Conversions, "user", r)
               /\ Return(r)
    /\ UNCHANGED <<max_size, arg_resolved, guild_id, on, token, cur, source>>
    /\ UNCHANGED <<job, bot>>

\* try_conversions: Emoji::convert
EmojiConvert ==
    /\ pc = "emoji"
    /\ log' = Append(log, Call(Conversions, "emoji", "Emoji::convert", token))
    /\ \E out \in {None} \cup {Some(e) : e \in Emojis} :
           IF IsSome(out)
           THEN cur' = out /\ pc' = "emoji.image" /\ UNCHANGED <<last, found>>
           ELSE /\ cur' = None /\ pc' = "custom_emoji"
                /\ Candidate(Conversions, "emoji", Err(ConvertError))
    /\ UNCHANGED <<max_size, arg_resolved, guild_id, on, token, source, result>>
    /\ UNCHANGED <<job, bot>>

\* try_conversions: the image of the emoji, and the return of resolve
EmojiImage ==
    /\ pc = "emoji.image"
    /\ \E response \in Responses :
           LET url == emoji_url(Unwrap(cur))
               r == url_to_bytes(url, response)
           IN  /\ log' = Append(log, Call(Conversions, "emoji", "GET", url))
               /\ Candidate(Conversions, "emoji", r)
               /\ Return(r)
    /\ UNCHANGED <<max_size, arg_resolved, guild_id, on, token, cur, source>>
    /\ UNCHANGED <<job, bot>>

\* try_conversions: convert_emoji
ConvertEmoji ==
    /\ pc = "custom_emoji"
    /\ LET url == convert_emoji_url(token)
       IN  IF ~url.ok
           THEN /\ Candidate(Conversions, "custom_emoji", url)
                /\ pc' = "unicode_emoji"
                /\ UNCHANGED <<log, result>>
           ELSE \E response \in Responses :
                    LET r == url_to_bytes(Unwrap(url.val), response)
                    IN  /\ log' = Append(log, Call(Conversions, "custom_emoji", "GET",
                                                   Unwrap(url.val)))
                        /\ Candidate(Conversions, "custom_emoji", r)
                        /\ IF r.ok THEN Return(r)
                           ELSE pc' = "unicode_emoji" /\ UNCHANGED result
    /\ UNCHANGED <<max_size, arg_resolved, guild_id, on, token, cur, source>>
    /\ UNCHANGED <<job, bot>>

\* try_conversions: the emoji cdn
UnicodeEmoji ==
    /\ pc = "unicode_emoji"
    /\ \E response \in Responses :
           LET r == url_to_bytes(emojicdn_url(token), response)
           IN  /\ log' = Append(log, Call(Conversions, "unicode_emoji", "GET",
                                          emojicdn_url(token)))
               /\ Candidate(Conversions, "unicode_emoji", r)
               /\ IF r.ok THEN Return(r)
                  ELSE pc' = "url" /\ UNCHANGED result
    /\ UNCHANGED <<max_size, arg_resolved, guild_id, on, token, cur, source>>
    /\ UNCHANGED <<job, bot>>

\* try_conversions: resolve_url, and what resolve does when the conversions
\* gave no image
Url ==
    /\ pc = "url"
    /\ \E response \in Responses :
       \E asset_response \in Answers(IsSome(ResolveUrlAsset(token, response))) :
           LET r == resolve_url(max_size, token, response, asset_response)
               asset == ResolveUrlAsset(token, response)
               first == Append(log, Call(Conversions, "url", "GET",
                                         ResolveUrlTarget(token)))
           IN  /\ log' = IF IsSome(asset)
                         THEN Append(first, Call(Conversions, "url", "GET", Unwrap(asset)))
                         ELSE first
               /\ Candidate(Conversions, "url", r)
               /\ IF url_step(r) = "return"
                  THEN Return(r) /\ UNCHANGED arg_resolved
                  ELSE /\ UNCHANGED result
                       /\ IF on = "message"
                          THEN arg_resolved' = FALSE /\ pc' = "files"
                          ELSE arg_resolved' = arg_resolved /\ pc' = "avatar"
    /\ UNCHANGED <<max_size, guild_id, on, token, cur, source>>
    /\ UNCHANGED <<job, bot>>

\* what Attachment::download gives: None when it fails, else the length of
\* the bytes
Downloads == {None} \cup {Some(n) : n \in Sizes}

\* get_attachments: the attachments of the message
GetFileImage ==
    /\ pc = "files"
    /\ \E attachments \in Lists(Attachments) :
       \E download \in IF Downloaded(max_size, attachments) > 0
                       THEN Downloads ELSE {None} :
           IF attachments # <<>>
           THEN LET r == get_file_image(max_size, attachments, download)
                    d == Downloaded(max_size, attachments)
                IN  /\ log' = IF d > 0
                              THEN Append(log, Call(Of("attachments"), "attachment", "download",
                                                    AttachmentUrl(d)))
                              ELSE log
                    /\ IF FirstImage(attachments, 1) > 0
                       THEN Candidate(Of("attachments"), "attachment", r)
                       ELSE UNCHANGED <<last, found>>
                    /\ IF r.ok
                       THEN source' = r.val /\ pc' = "stickers" /\ UNCHANGED result
                       ELSE source' = source /\ Return(r)
           ELSE /\ source' = None /\ pc' = "stickers"
                /\ UNCHANGED <<result, log, last, found>>
    /\ UNCHANGED <<max_size, arg_resolved, guild_id, on, token, cur>>
    /\ UNCHANGED <<job, bot>>

\* get_attachments: the stickers of the message
GetStickerImage ==
    /\ pc = "stickers"
    /\ \E sticker_items \in Lists(StickerItems) :
       \E response \in Answers(/\ sticker_step(source, sticker_items)
                               /\ IsSome(StickerUrl(sticker_items, 1))) :
           IF sticker_step(source, sticker_items)
           THEN LET r == get_sticker_image(sticker_items, response)
                    url == StickerUrl(sticker_items, 1)
                IN  /\ log' = IF IsSome(url)
                              THEN Append(log, Call(Of("stickers"), "sticker", "GET",
                                                    Unwrap(url)))
                              ELSE log
                    /\ IF IsSome(url)
                       THEN Candidate(Of("stickers"), "sticker", r)
                       ELSE UNCHANGED <<last, found>>
                    /\ IF r.ok
                       THEN source' = r.val /\ pc' = "embeds" /\ UNCHANGED result
                       ELSE source' = source /\ Return(r)
           ELSE /\ pc' = "embeds"
                /\ UNCHANGED <<source, result, log, last, found>>
    /\ UNCHANGED <<max_size, arg_resolved, guild_id, on, token, cur>>
    /\ UNCHANGED <<job, bot>>

\* resolve, after get_attachments returned Ok(s)
AfterAttachments(s) ==
    IF IsSome(s)
    THEN source' = s /\ Return(Ok(s))
    ELSE /\ source' = None
         /\ pc' = IF on = "message" THEN "referenced" ELSE "content"
         /\ UNCHANGED result

\* get_attachments: the embeds of the message, its return, and what resolve
\* does with what it returns
GetEmbedImage ==
    /\ pc = "embeds"
    /\ \E embeds \in Lists(Embeds) :
       \E response \in Answers(/\ embed_step(source, embeds)
                               /\ IsSome(EmbedUrl(embeds))) :
       \E asset_response \in Answers(
               /\ embed_step(source, embeds)
               /\ IsSome(EmbedUrl(embeds))
               /\ IsSome(ResolveUrlAsset(Unwrap(EmbedUrl(embeds)).url, response))) :
           IF embed_step(source, embeds)
           THEN LET r == get_embed_image(max_size, embeds, response, asset_response)
                    e == EmbedUrl(embeds)
                    asset == IF IsSome(e)
                             THEN ResolveUrlAsset(Unwrap(e).url, response)
                             ELSE None
                    first == IF IsSome(e)
                             THEN Append(log, Call(Of("embeds"), Unwrap(e).candidate, "GET",
                                                   ResolveUrlTarget(Unwrap(e).url)))
                             ELSE log
                IN  /\ log' = IF IsSome(asset)
                              THEN Append(first, Call(Of("embeds"), Unwrap(e).candidate,
                                                      "GET", Unwrap(asset)))
                              ELSE first
                    /\ IF IsSome(e)
                       THEN Candidate(Of("embeds"), Unwrap(e).candidate, r)
                       ELSE UNCHANGED <<last, found>>
                    /\ IF r.ok
                       THEN AfterAttachments(r.val)
                       ELSE source' = source /\ Return(r)
           ELSE /\ AfterAttachments(source)
                /\ UNCHANGED <<log, last, found>>
    /\ UNCHANGED <<max_size, arg_resolved, guild_id, on, token, cur>>
    /\ UNCHANGED <<job, bot>>

\* resolve: message.referenced_message
Referenced ==
    /\ pc = "referenced"
    /\ \E referenced_message \in BOOLEAN :
           IF referenced_message
           THEN on' = "referenced" /\ pc' = "files"
           ELSE on' = on /\ pc' = "avatar"
    /\ UNCHANGED <<max_size, arg_resolved, guild_id, token, cur, source, result,
                   log, last, found>>
    /\ UNCHANGED <<job, bot>>

\* resolve handing the token of the referenced message to the emoji and url
\* conversions alone
Content_m ==
    /\ pc = "content"
    /\ \E content \in Contents :
           IF content # <<>> /\ IsSome(WS_REGEX_split_next(content))
           THEN token' = Unwrap(WS_REGEX_split_next(content)) /\ pc' = "emoji"
           ELSE token' = token /\ pc' = "avatar"
    /\ UNCHANGED <<max_size, arg_resolved, guild_id, on, cur, source, result,
                   log, last, found>>
    /\ UNCHANGED <<job, bot>>

\* resolve: the first token of the contents of the referenced message
Content ==
    /\ pc = "content"
    /\ \E content \in Contents :
           IF content # <<>> /\ IsSome(WS_REGEX_split_next(content))
           THEN token' = Unwrap(WS_REGEX_split_next(content)) /\ pc' = "member"
           ELSE token' = token /\ pc' = "avatar"
    /\ UNCHANGED <<max_size, arg_resolved, guild_id, on, cur, source, result,
                   log, last, found>>
    /\ UNCHANGED <<job, bot>>

\* resolve: the member or the user whose avatar is the fallback
Avatar ==
    /\ pc = "avatar"
    /\ IF IsSome(guild_id)
       THEN /\ log' = Append(log, Call("avatar", "avatar", "GuildId::member", <<"author">>))
            /\ \E out \in {None} \cup {Some(m) : m \in Members} :
                   IF IsSome(out)
                   THEN /\ cur' = out /\ pc' = "avatar.fetch"
                        /\ UNCHANGED <<result, last, found>>
                   ELSE /\ cur' = None
                        /\ Candidate("avatar", "avatar", Err(SerenityError))
                        /\ Return(Err(SerenityError))
       ELSE /\ \E author \in Users : cur' = Some(author)
            /\ pc' = "avatar.fetch"
            /\ UNCHANGED <<result, log, last, found>>
    /\ UNCHANGED <<max_size, arg_resolved, guild_id, on, token, source>>
    /\ UNCHANGED <<job, bot>>

\* resolve: the fallback, and its return
AvatarFetch ==
    /\ pc = "avatar.fetch"
    /\ \E response \in Responses :
           LET avatar == IF IsSome(guild_id)
                         THEN member_avatar_url(Unwrap(cur))
                         ELSE user_avatar_url(Unwrap(cur))
               r == url_to_bytes(avatar, response)
           IN  /\ log' = Append(log, Call("avatar", "avatar", "GET", avatar))
               /\ Candidate("avatar", "avatar", r)
               /\ Return(r)
    /\ UNCHANGED <<max_size, arg_resolved, guild_id, on, token, cur, source>>
    /\ UNCHANGED <<job, bot>>

Next ==
    \/ Resolve
    \/ MemberConvert
    \/ MemberAvatar
    \/ UserConvert
    \/ UserAvatar
    \/ EmojiConvert
    \/ EmojiImage
    \/ ConvertEmoji
    \/ UnicodeEmoji
    \/ Url
    \/ GetFileImage
    \/ GetStickerImage
    \/ GetEmbedImage
    \/ Referenced
    \/ Content
    \/ Avatar
    \/ AvatarFetch

Spec == Init /\ [][Next]_vars

\* resolve when every collaborator call it awaits returns: each await of
\* resolve is followed by the step after it
SpecLive == Init /\ [][Next]_vars /\ WF_vars(Next)

(***************************************************************************)
(* error.rs: the errors of the pipeline and the text of an error           *)
(***************************************************************************)
TooManyFrames(count, limit) == Error("TooManyFrames", count, limit, <<>>)
RilError == Error("RilError", 0, 0, <<>>)
\* tokio's JoinError, of a blocking task that panicked
JoinError == Error("JoinError", 0, 0, <<>>)

\* Display for Error: the message, with the sizes, the counts and the
\* argument it is formatted with
to_string(err) ==
    [message |-> err.kind,
     sizes |-> IF err.kind = "ImageTooLarge"
               THEN <<humanize_bytes(Bits(err.size)), humanize_bytes(Bits(err.limit))>>
               ELSE <<>>,
     counts |-> IF err.kind = "TooManyFrames" THEN <<err.size, err.limit>> ELSE <<>>,
     argument |-> err.token]

(***************************************************************************)
(* imaging.rs: ImageExecutor                                               *)
(***************************************************************************)
\* the largest frame count max_frames is set to
MaxFrames == 3

\* the functions of the commands
Functions == {"invert", "huerotate", "caption"}

\* the sizes of the frames of a decoded image
FrameSizes == { <<100, 100>>, <<500, 100>>, <<600, 100>>, <<100, 600>>,
                <<594, 594>> }

\* what ImageSequence::from_bytes_inferred(..).into_sequence() decodes: n
\* frames of one size, or two frames of two sizes
Uniform(n, size) == [i \in 1..n |-> Frame(i, size[1], size[2])]

Decoded(counts) ==
    { Uniform(n, size) : n \in counts, size \in FrameSizes }
    \cup { <<Frame(1, 600, 600), Frame(2, 100, 100)>>,
           <<Frame(1, 100, 100), Frame(2, 600, 600)>> }

FrameCounts == {1, 2, MaxFrames, MaxFrames + 1, MaxFrames + 2,
                DEFAULT_MAX_FRAMES, DEFAULT_MAX_FRAMES + 1}

\* the heights the layout of a caption asks for
ExtraHeights == {33, 66}

\* a step of the command: the operation, whether it succeeded, and the
\* number of frames it ended with
Step(op, ok, frames) == [op |-> op, ok |-> ok, frames |-> frames]

\* the command returns r
Returns(r) ==
    /\ stage' = "returned"
    /\ command_result' = Some(r)

\* the comparison of run with >= for >
exceeds_m(len, limit) == len >= limit

\* run: image.len() > max_frames
exceeds(len, limit) == len > limit

\* run: is_gif, from any frame at all
is_gif_m(sequence) == Len(sequence) >= 1

\* run: is_gif
is_gif(sequence) == Len(sequence) > 1

\* send_output: the message it sends
Output(content, is_animated) ==
    [kind |-> "file",
     filename |-> <<"output.", IF is_animated THEN "gif" ELSE "png">>,
     data |-> content]

\* error_handler: the message it sends
Reply(content) == [kind |-> "text", filename |-> <<>>, data |-> content]

ResolverIdle == UNCHANGED <<max_size, arg_resolved, guild_id, pc, on, token, cur,
                            source, result, log, last, found>>

\* the builder method function
function ==
    /\ stage = "new"
    /\ \E f \in Functions :
           /\ executor.function # Some(f)
           /\ executor' = [executor EXCEPT !.function = Some(f)]
    /\ UNCHANGED <<stage, image, encoded, command_result, replies, steps, call, ret, bot>>
    /\ ResolverIdle

\* the builder method max_width
max_width ==
    /\ stage = "new"
    /\ \E n \in {100, DEFAULT_MAX_DIM} :
           /\ executor.max_width # Some(n)
           /\ executor' = [executor EXCEPT !.max_width = Some(n)]
    /\ UNCHANGED <<stage, image, encoded, command_result, replies, steps, call, ret, bot>>
    /\ ResolverIdle

\* the builder method max_height
max_height ==
    /\ stage = "new"
    /\ \E n \in {100, DEFAULT_MAX_DIM} :
           /\ executor.max_height # Some(n)
           /\ executor' = [executor EXCEPT !.max_height = Some(n)]
    /\ UNCHANGED <<stage, image, encoded, command_result, replies, steps, call, ret, bot>>
    /\ ResolverIdle

\* the builder method max_frames
max_frames ==
    /\ stage = "new"
    /\ \E n \in {MaxFrames, DEFAULT_MAX_FRAMES} :
           /\ executor.max_frames # Some(n)
           /\ executor' = [executor EXCEPT !.max_frames = Some(n)]
    /\ UNCHANGED <<stage, image, encoded, command_result, replies, steps, call, ret, bot>>
    /\ ResolverIdle

\* run is called
Run ==
    /\ stage = "new"
    /\ stage' = "run"
    /\ UNCHANGED <<executor, image, encoded, command_result, replies, steps, call, ret, bot>>
    /\ ResolverIdle

\* run: the bytes are decoded
Decode ==
    /\ stage = "run"
    /\ \E decoded \in {None} \cup {Some(f) : f \in Decoded(FrameCounts)} :
           IF IsSome(decoded)
           THEN /\ image' = Unwrap(decoded)
                /\ steps' = Append(steps, Step("decode", TRUE, Len(Unwrap(decoded))))
                /\ stage' = "decoded"
                /\ UNCHANGED command_result
           ELSE /\ steps' = Append(steps, Step("decode", FALSE, 0))
                /\ Returns(Err(RilError))
                /\ UNCHANGED image
    /\ UNCHANGED <<executor, encoded, replies, call, ret, bot>>
    /\ ResolverIdle

\* run: the frame count is checked
CheckFrames_m ==
    /\ stage = "decoded"
    /\ steps' = Append(steps, Step("max_frames", TRUE, Len(image)))
    /\ stage' = "checked"
    /\ UNCHANGED <<executor, image, encoded, command_result, replies, call, ret, bot>>
    /\ ResolverIdle

CheckFrames ==
    /\ stage = "decoded"
    /\ LET limit == IF IsSome(executor.max_frames)
                    THEN Unwrap(executor.max_frames) ELSE DEFAULT_MAX_FRAMES
       IN  IF exceeds(Len(image), limit)
           THEN /\ steps' = Append(steps, Step("max_frames", FALSE, Len(image)))
                /\ Returns(Err(TooManyFrames(Len(image), limit)))
           ELSE /\ steps' = Append(steps, Step("max_frames", TRUE, Len(image)))
                /\ stage' = "checked"
                /\ UNCHANGED command_result
    /\ UNCHANGED <<executor, image, encoded, replies, call, ret, bot>>
    /\ ResolverIdle

\* run: contain_size
Resize ==
    /\ stage = "checked"
    /\ image' = contain_size(image, executor.max_width, executor.max_height)
    /\ steps' = Append(steps, Step("contain_size", TRUE, Len(image)))
    /\ stage' = "resized"
    /\ UNCHANGED <<executor, encoded, command_result, replies, call, ret, bot>>
    /\ ResolverIdle

\* run: the function of the executor; without one the task panics
Transform ==
    /\ stage = "resized"
    /\ IF ~IsSome(executor.function)
       THEN /\ steps' = Append(steps, Step("function", FALSE, 0))
            /\ Returns(Err(JoinError))
            /\ UNCHANGED image
       ELSE /\ \E extra_height \in ExtraHeights :
                   image' = CASE Unwrap(executor.function) = "invert" ->
                                     invert_func(image)
                              [] Unwrap(executor.function) = "huerotate" ->
                                     huerotate_func(image)
                              [] OTHER -> caption_func(image, extra_height)
            /\ steps' = Append(steps, Step("function", TRUE, Len(image')))
            /\ stage' = "transformed"
            /\ UNCHANGED command_result
    /\ UNCHANGED <<executor, encoded, replies, call, ret, bot>>
    /\ ResolverIdle

\* run: is_gif, the format, and the encoding
Encode ==
    /\ stage = "transformed"
    /\ \E ok \in BOOLEAN :
           IF ok
           THEN /\ encoded' = Some([format |-> IF is_gif(image) THEN "Gif" ELSE "Png",
                                    frames |-> image,
                                    is_gif |-> is_gif(image)])
                /\ steps' = Append(steps, Step("encode", TRUE, Len(image)))
                /\ stage' = "encoded"
                /\ UNCHANGED command_result
           ELSE /\ steps' = Append(steps, Step("encode", FALSE, Len(image)))
                /\ Returns(Err(RilError))
                /\ UNCHANGED encoded
    /\ UNCHANGED <<executor, image, replies, call, ret, bot>>
    /\ ResolverIdle

\* run: send_output
SendOutput ==
    /\ stage = "encoded"
    /\ \E ok \in BOOLEAN :
           IF ok
           THEN /\ replies' = Append(replies,
                                     Output(Unwrap(encoded), Unwrap(encoded).is_gif))
                /\ steps' = Append(steps, Step("send_output", TRUE, Len(image)))
                /\ Returns(Ok(None))
           ELSE /\ steps' = Append(steps, Step("send_output", FALSE, Len(image)))
                /\ Returns(Err(SerenityError))
                /\ UNCHANGED replies
    /\ UNCHANGED <<executor, image, encoded, call, ret, bot>>
    /\ ResolverIdle

(***************************************************************************)
(* main.rs: the commands and error_handler                                 *)
(***************************************************************************)
\* what resolve returns to a command: the outcomes of the resolver above
Resolved ==
    { Ok(Some(Bytes(ResolveUrlTarget(PlainUrl), DEFAULT_MAX_SIZE - 1,
                    Some(<<"image/", "png">>)))),
      Err(ImageTooLarge(DEFAULT_MAX_SIZE, DEFAULT_MAX_SIZE)),
      Err(FetchUrlError),
      Err(InvalidContentType),
      Err(RequestError),
      Err(SerenityError) }

\* invert, huerotate and caption without the ? on resolve
Command_m ==
    /\ stage = "command"
    /\ \E f \in Functions, r \in Resolved :
           /\ pc' = "done"
           /\ result' = Some(r)
           /\ steps' = Append(steps, Step("resolve", r.ok, 0))
           /\ executor' = [new EXCEPT !.function = Some(f)]
           /\ stage' = "run"
    /\ UNCHANGED <<image, encoded, command_result, replies, call, ret, bot>>
    /\ UNCHANGED <<max_size, arg_resolved, guild_id, on, token, cur, source,
                   log, last, found>>

\* invert, huerotate and caption: resolve, with what it returns, then
\* ImageExecutor::new, function and the call of run
Command ==
    /\ stage = "command"
    /\ \E f \in Functions, r \in Resolved :
           /\ pc' = "done"
           /\ result' = Some(r)
           /\ steps' = Append(steps, Step("resolve", r.ok, 0))
           /\ IF r.ok
              THEN /\ executor' = [new EXCEPT !.function = Some(f)]
                   /\ stage' = "run"
                   /\ UNCHANGED command_result
              ELSE /\ Returns(Err(Unwrap(r.err)))
                   /\ UNCHANGED executor
    /\ UNCHANGED <<image, encoded, replies, call, ret, bot>>
    /\ UNCHANGED <<max_size, arg_resolved, guild_id, on, token, cur, source,
                   log, last, found>>

\* error_handler, the hook that runs after a command; delivered is whether
\* the reply reached the channel
error_handler ==
    /\ stage = "returned"
    /\ pc = "done"
    /\ \E delivered \in BOOLEAN :
           replies' = IF ~Unwrap(command_result).ok /\ delivered
                      THEN Append(replies,
                                  Reply(to_string(Unwrap(Unwrap(command_result).err))))
                      ELSE replies
    /\ steps' = Append(steps, Step("error_handler", TRUE, 0))
    /\ stage' = "handled"
    /\ UNCHANGED <<executor, image, encoded, command_result, call, ret, bot>>
    /\ ResolverIdle

\* resolve_arg: the first argument of the command, if it has one; tokens
\* are the arguments of the command, each a text
resolve_arg(tokens) == IF tokens = <<>> THEN None ELSE Some(Head(tokens))

\* resolve_extra_arg that always takes the rest
resolve_extra_arg_m(img_resolved, tokens) ==
    IF Len(tokens) <= 1 THEN <<(<<" ">>)>> ELSE Tail(tokens)

\* resolve_extra_arg, called after resolve_arg has taken the first argument:
\* args.rest() or all of args.raw(), as the texts that " " joins, and " "
\* when that is empty
resolve_extra_arg(img_resolved, tokens) ==
    LET arg == IF img_resolved
               THEN IF tokens = <<>> THEN <<>> ELSE Tail(tokens)
               ELSE tokens
    IN  IF arg = <<>> THEN <<(<<" ">>)>> ELSE arg

\* the arguments caption is invoked with
CaptionArgs ==
    {<<>>} \cup { <<a>> \o rest : a \in {EmojiStatic, Hello, PlainUrl},
                                 rest \in {<<>>, <<Hello>>} }

\* caption: resolve is called with the first argument
CaptionResolve ==
    /\ stage = "caption"
    /\ resolve(resolve_arg(call.args))

\* caption: after resolve, resolve_extra_arg, then ImageExecutor::new,
\* function, arguments and the call of run
Caption ==
    /\ stage = "caption"
    /\ pc = "done"
    /\ steps' = Append(steps, Step("resolve", Unwrap(result).ok, 0))
    /\ IF Unwrap(result).ok
       THEN /\ executor' = [new EXCEPT
                               !.function = Some("caption"),
                               !.arguments =
                                   <<resolve_extra_arg(arg_resolved, call.args)>>]
            /\ stage' = "run"
            /\ UNCHANGED command_result
       ELSE /\ Returns(Err(Unwrap(Unwrap(result).err)))
            /\ UNCHANGED executor
    /\ UNCHANGED <<image, encoded, replies, call, ret, bot>>
    /\ ResolverIdle

(***************************************************************************)
(* One call of contain_size or of humanize_bytes                           *)
(***************************************************************************)
\* Option<u32>: the width and height contain_size is called with
Caps == {None, Some(100), Some(DEFAULT_MAX_DIM)}

\* u64: the sizes humanize_bytes is called with, in binary
ByteSizes ==
    { Bits(n) : n \in {0, 1, 1023, 1024, 1025, 1048575, 1048576,
                       DEFAULT_MAX_SIZE - 1, DEFAULT_MAX_SIZE} }
    \cup { <<1>> \o Rep(0, k) : k \in 29..63 }
    \cup { Rep(1, k) : k \in 29..64 }
    \cup { Rep(1, 54) \o Rep(0, 6), Rep(1, 53) \o <<0>> \o Rep(1, 6) }

Calls ==
    { [fn |-> "contain_size", frames |-> f, width |-> w, height |-> h] :
        f \in Decoded({1, 2}), w \in Caps, h \in Caps }
    \cup { [fn |-> "humanize_bytes", size |-> s] : s \in ByteSizes }
    \cup { [fn |-> "huerotate_func", frames |-> f] :
             f \in Decoded({1, 2, MaxFrames, 35, 36, 37}) }

ContainSize ==
    /\ stage = "call"
    /\ ret = None
    /\ call.fn = "contain_size"
    /\ ret' = Some(contain_size(call.frames, call.width, call.height))
    /\ UNCHANGED <<stage, executor, image, encoded, command_result, replies, steps, call, bot>>
    /\ ResolverIdle

HumanizeBytes ==
    /\ stage = "call"
    /\ ret = None
    /\ call.fn = "humanize_bytes"
    /\ ret' = Some(humanize_bytes(call.size))
    /\ UNCHANGED <<stage, executor, image, encoded, command_result, replies, steps, call, bot>>
    /\ ResolverIdle

HuerotateFunc ==
    /\ stage = "call"
    /\ ret = None
    /\ call.fn = "huerotate_func"
    /\ ret' = Some(huerotate_func(call.frames))
    /\ UNCHANGED <<stage, executor, image, encoded, command_result, replies, steps, call, bot>>
    /\ ResolverIdle

(***************************************************************************)
(* Two commands in flight at once                                          *)
(*                                                                         *)
(* Each invocation owns its ImageResolver, its ImageExecutor and its       *)
(* blocking task; a step is what one invocation does between two awaits.   *)
(* What the collaborators answer to an invocation is its script.           *)
(***************************************************************************)
\* what the collaborators answer: to the conversions of the argument, to
\* get_attachments on the message, to the referenced message (its lists and
\* its first token), to the fetch of the avatar, and how the blocking task
\* of run ends
Script(has_arg, argument, message, referenced, avatar, task) ==
    [has_arg |-> has_arg, argument |-> argument, message |-> message,
     referenced |-> referenced, avatar |-> avatar, task |-> task]

Scripts ==
    { Script(FALSE, "none", "bytes", "none", "bytes", "ok"),
      Script(FALSE, "none", "none", "none", "bytes", "encode"),
      Script(TRUE, "bytes", "none", "none", "bytes", "ok"),
      Script(TRUE, "error", "none", "none", "bytes", "ok"),
      Script(TRUE, "none", "bytes", "none", "bytes", "decode"),
      Script(TRUE, "none", "none", "bytes", "bytes", "ok"),
      Script(TRUE, "none", "none", "error", "bytes", "ok"),
      Script(TRUE, "none", "none", "none", "error", "ok") }

\* a command as the framework dispatches it: ImageResolver::new has
\* arg_resolved = true
Invocation(id, script) ==
    [id |-> id, script |-> script, at |-> "command", arg_resolved |-> TRUE,
     resolved |-> None, tasks |-> 0, transforms |-> 0,
     command_result |-> None, replies |-> <<>>]

\* the bytes a strategy gives to an invocation, or its error
Answer(inv, strategy, answer) ==
    IF answer = "bytes" THEN Ok([of |-> inv.id, from |-> strategy])
    ELSE Err(FetchUrlError)

\* self.arg_resolved = false, on the resolver of every invocation
arg_unresolved_m(invs, i) ==
    [j \in DOMAIN invs |-> [invs[j] EXCEPT !.arg_resolved = FALSE]]

\* self.arg_resolved = false
arg_unresolved(invs, i) == [invs EXCEPT ![i].arg_resolved = FALSE]

\* resolve of invocation i returns r: the read guard of ctx.data is dropped
Returning(i, r) ==
    /\ invocations' = [invocations EXCEPT ![i].resolved = Some(r),
                                          ![i].at = "resolved"]
    /\ client' = [client EXCEPT !.readers = client.readers - 1]

\* resolve of invocation i goes on to the next strategy
Moving(i, at) ==
    /\ invocations' = [invocations EXCEPT ![i].at = at]
    /\ UNCHANGED client

\* nothing of the single command of the other specifications moves
OneIdle ==
    /\ ResolverIdle
    /\ UNCHANGED job

\* the command starts: resolve takes the read lock of ctx.data and the client
PairInvoke ==
    /\ \E i \in DOMAIN invocations :
           /\ invocations[i].at = "command"
           /\ client.value = ClientData.value
           /\ invocations' = [invocations EXCEPT
                                 ![i].at = IF invocations[i].script.has_arg
                                           THEN "argument" ELSE "message"]
           /\ client' = [client EXCEPT !.readers = client.readers + 1]
    /\ OneIdle

\* resolve: try_conversions on the argument
PairArgument ==
    /\ \E i \in DOMAIN invocations :
           LET inv == invocations[i]
           IN  /\ inv.at = "argument"
               /\ IF inv.script.argument = "none"
                  THEN /\ invocations' = [arg_unresolved(invocations, i) EXCEPT
                                             ![i].at = "message"]
                       /\ UNCHANGED client
                  ELSE Returning(i, Answer(inv, "argument", inv.script.argument))
    /\ OneIdle

\* resolve: get_attachments on the message
PairMessage ==
    /\ \E i \in DOMAIN invocations :
           LET inv == invocations[i]
           IN  /\ inv.at = "message"
               /\ IF inv.script.message = "none"
                  THEN Moving(i, "referenced")
                  ELSE Returning(i, Answer(inv, "message", inv.script.message))
    /\ OneIdle

\* resolve: the referenced message
PairReferenced ==
    /\ \E i \in DOMAIN invocations :
           LET inv == invocations[i]
           IN  /\ inv.at = "referenced"
               /\ IF inv.script.referenced = "none"
                  THEN Moving(i, "avatar")
                  ELSE Returning(i, Answer(inv, "referenced", inv.script.referenced))
    /\ OneIdle

\* resolve: the avatar
PairAvatar ==
    /\ \E i \in DOMAIN invocations :
           LET inv == invocations[i]
           IN  /\ inv.at = "avatar"
               /\ Returning(i, Answer(inv, "avatar", inv.script.avatar))
    /\ OneIdle

\* the command after resolve: its ? on the error, or run, which hands its
\* closure to spawn_blocking
PairSpawn ==
    /\ \E i \in DOMAIN invocations :
           LET inv == invocations[i]
           IN  /\ inv.at = "resolved"
               /\ invocations' =
                      IF Unwrap(inv.resolved).ok
                      THEN [invocations EXCEPT ![i].at = "spawned",
                                               ![i].tasks = inv.tasks + 1]
                      ELSE [invocations EXCEPT ![i].at = "returned",
                                               ![i].command_result =
                                                   Some(Err(Unwrap(Unwrap(inv.resolved).err)))]
    /\ UNCHANGED client
    /\ OneIdle

\* the closure of run on a blocking thread, from decode to encode without
\* an await
PairTask ==
    /\ \E i \in DOMAIN invocations :
           LET inv == invocations[i]
           IN  /\ inv.at = "spawned"
               /\ invocations' =
                      [invocations EXCEPT
                          ![i].at = "joined",
                          ![i].transforms = IF inv.script.task = "decode"
                                            THEN inv.transforms
                                            ELSE inv.transforms + 1]
    /\ UNCHANGED client
    /\ OneIdle

\* run after the task: its ? on the error, or send_output
PairJoin ==
    /\ \E i \in DOMAIN invocations :
           LET inv == invocations[i]
           IN  /\ inv.at = "joined"
               /\ invocations' =
                      IF inv.script.task = "ok"
                      THEN [invocations EXCEPT
                               ![i].at = "returned",
                               ![i].command_result = Some(Ok(None)),
                               ![i].replies =
                                   Append(inv.replies,
                                          Output(Unwrap(inv.resolved).val, FALSE))]
                      ELSE [invocations EXCEPT
                               ![i].at = "returned",
                               ![i].command_result = Some(Err(RilError))]
    /\ UNCHANGED client
    /\ OneIdle

\* error_handler after the command
PairAfter ==
    /\ \E i \in DOMAIN invocations :
           LET inv == invocations[i]
           IN  /\ inv.at = "returned"
               /\ invocations' =
                      [invocations EXCEPT
                          ![i].at = "handled",
                          ![i].replies =
                              IF Unwrap(inv.command_result).ok THEN inv.replies
                              ELSE Append(inv.replies,
                                          Reply(to_string(Unwrap(
                                              Unwrap(inv.command_result).err))))]
    /\ UNCHANGED client
    /\ OneIdle

(***************************************************************************)
(* The specifications of the executor, of a command and of the functions   *)
(***************************************************************************)
\* the resolver of a command, as ImageResolver::new leaves it
Resolver ==
    /\ max_size = DEFAULT_MAX_SIZE
    /\ arg_resolved = TRUE
    /\ guild_id = None
    /\ on = "message"
    /\ token = <<>>
    /\ cur = None
    /\ source = None
    /\ result = None
    /\ log = <<>>
    /\ last = None
    /\ found = <<>>

\* an ImageExecutor on its own: built, then run
InitRun ==
    /\ Resolver /\ pc = "done"
    /\ Start("new")
    /\ call = None /\ ret = None
    /\ Single

NextRun ==
    \/ function
    \/ max_width
    \/ max_height
    \/ max_frames
    \/ Run
    \/ Decode
    \/ CheckFrames
    \/ Resize
    \/ Transform
    \/ Encode
    \/ SendOutput

SpecRun == InitRun /\ [][NextRun]_vars

\* a command, from its invocation to the end of error_handler
InitCommand ==
    /\ Resolver /\ pc = "resolve"
    /\ Start("command")
    /\ call = None /\ ret = None
    /\ Single

NextCommand ==
    \/ Command
    \/ Decode
    \/ CheckFrames
    \/ Resize
    \/ Transform
    \/ Encode
    \/ SendOutput
    \/ error_handler

SpecCommand == InitCommand /\ [][NextCommand]_vars

\* one call of a function
InitCall ==
    /\ Resolver /\ pc = "done"
    /\ Start("call")
    /\ call \in Calls
    /\ ret = None
    /\ Single

NextCall ==
    \/ ContainSize
    \/ HumanizeBytes
    \/ HuerotateFunc

SpecCall == InitCall /\ [][NextCall]_vars

\* the caption command: resolve as it runs, then its arguments
InitCaption ==
    /\ max_size = DEFAULT_MAX_SIZE
    /\ arg_resolved = TRUE
    /\ guild_id \in {None, Some(<<"3">>)}
    /\ pc = "resolve"
    /\ on = "message"
    /\ token = <<>>
    /\ cur = None
    /\ source = None
    /\ result = None
    /\ log = <<>>
    /\ last = None
    /\ found = <<>>
    /\ Start("caption")
    /\ call \in { [fn |-> "caption", args |-> a] : a \in CaptionArgs }
    /\ ret = None
    /\ Single

NextCaption ==
    \/ CaptionResolve
    \/ MemberConvert
    \/ MemberAvatar
    \/ UserConvert
    \/ UserAvatar
    \/ EmojiConvert
    \/ EmojiImage
    \/ ConvertEmoji
    \/ UnicodeEmoji
    \/ Url
    \/ GetFileImage
    \/ GetStickerImage
    \/ GetEmbedImage
    \/ Referenced
    \/ Content
    \/ Avatar
    \/ AvatarFetch
    \/ Caption

SpecCaption == InitCaption /\ [][NextCaption]_vars

\* two commands dispatched at once
InitPair ==
    /\ Resolver /\ pc = "done"
    /\ Start("pair")
    /\ call = None /\ ret = None
    /\ invocations \in { <<Invocation(1, a), Invocation(2, b)>> :
                            a \in Scripts, b \in Scripts }
    /\ client = ClientData

NextPair ==
    \/ PairInvoke
    \/ PairArgument
    \/ PairMessage
    \/ PairReferenced
    \/ PairAvatar
    \/ PairSpawn
    \/ PairTask
    \/ PairJoin
    \/ PairAfter

SpecPair == InitPair /\ [][NextPair]_vars


(***************************************************************************)
(* What the properties below read from the state                           *)
(***************************************************************************)
\* the place of a strategy in the order of resolve
Rank(strategy) == CHOOSE i \in DOMAIN Strategies : Strategies[i] = strategy

\* the kind of the error the last candidate gave, "none" when it gave none
LastError ==
    IF IsSome(last) /\ ~Unwrap(last).outcome.ok
    THEN Unwrap(Unwrap(last).outcome.err).kind
    ELSE "none"

\* resolve has returned an image
ReturnedImage == pc = "done" /\ IsSome(result) /\ Unwrap(result).ok

\* the image resolve returned
Image == Unwrap(Unwrap(result).val)

(***************************************************************************)
(* C1: resolve tries its strategies in the fixed order (argument, then the *)
(* attachments, stickers, embeds of the invoking message, then those of    *)
(* the referenced message, then its first token, then the avatar); the     *)
(* bytes it returns are those of the first strategy that succeeded, and    *)
(* once a strategy has succeeded no further call is made.                  *)
(***************************************************************************)
C1_FirstSuccessWins ==
    /\ \A i, j \in DOMAIN log :
           i < j => Rank(log[i].strategy) <= Rank(log[j].strategy)
    /\ Len(found) <= 1
    /\ found # <<>> =>
           /\ IsSome(last)
           /\ Unwrap(last).outcome = Ok(Some(found[1]))
           /\ log # <<>>
           /\ log[Len(log)].strategy = Unwrap(last).strategy
           /\ log[Len(log)].target = found[1].url
    /\ ReturnedImage => found = <<Image>>
    /\ pc = "done" => ~ENABLED Next

\* the argument and the lists of both messages gave nothing, and an embed of
\* the referenced message is returned
C1_Witness ==
    /\ ReturnedImage
    /\ Unwrap(last).strategy = "referenced.embeds"
    /\ log[1].strategy = "argument"
    /\ Len(log) >= 7

(***************************************************************************)
(* C2: a candidate that gives ImageTooLarge ends resolve with that error   *)
(* at once: no later candidate or strategy is tried and the avatar is not  *)
(* fetched.                                                                *)
(***************************************************************************)
C2_TooLargeAborts ==
    LastError = "ImageTooLarge" =>
        /\ pc = "done"
        /\ result = Some(Unwrap(last).outcome)
        /\ log # <<>> => Rank(log[Len(log)].strategy) <= Rank(Unwrap(last).strategy)
        /\ \A i \in DOMAIN log : log[i].strategy # "avatar"
        /\ ~ENABLED Next

\* the argument gave nothing and an attachment is too large
C2_Witness ==
    /\ LastError = "ImageTooLarge"
    /\ Unwrap(last).candidate = "attachment"
    /\ ~arg_resolved
    /\ pc = "done"

(***************************************************************************)
(* C3: a FetchUrlError on one candidate of the chain (the avatar of a      *)
(* resolved member or user, an emoji url, an argument url, a sticker, an   *)
(* embed image or thumbnail) does not end resolve: the next candidate is   *)
(* tried.                                                                  *)
(***************************************************************************)
C3_FetchErrorFallsThrough ==
    (LastError = "FetchUrlError" /\ Unwrap(last).strategy # "avatar") =>
        /\ pc # "done"
        /\ result = None

(***************************************************************************)
(* C4: an InvalidContentType on one candidate (an argument url, an embed   *)
(* image or thumbnail) does not end resolve while a later candidate, the   *)
(* avatar included, is untried.                                            *)
(***************************************************************************)
C4_InvalidContentTypeIsLocal ==
    (LastError = "InvalidContentType" /\ Unwrap(last).strategy # "avatar") =>
        /\ pc # "done"
        /\ result = None

(***************************************************************************)
(* C5: the bytes resolve returns are shorter than max_size, whichever      *)
(* strategy gave them.                                                     *)
(***************************************************************************)
C5_ReturnedBelowMaxSize ==
    ReturnedImage => Image.len < max_size

(***************************************************************************)
(* C6: the bytes resolve returns were served or declared with a content    *)
(* type that starts with image/ , whichever strategy gave them.            *)
(***************************************************************************)
C6_ReturnedIsImage ==
    ReturnedImage =>
        starts_with(ContentTypeOrUnknown(Image.content_type), "image/")

\* the place of a candidate of try_conversions among its sub-strategies:
\* member mention, user mention, emoji, url
SubRank(candidate) ==
    CASE candidate = "member" -> 1
      [] candidate = "user" -> 2
      [] candidate \in {"emoji", "custom_emoji", "unicode_emoji"} -> 3
      [] candidate = "url" -> 4
      [] OTHER -> 5

\* the calls made for strategy s keep the order of the sub-strategies
SubOrder(s) ==
    \A i, j \in DOMAIN log :
        (i < j /\ log[i].strategy = s /\ log[j].strategy = s) =>
            SubRank(log[i].candidate) <= SubRank(log[j].candidate)

(***************************************************************************)
(* C7: the sub-strategies of the argument are tried in the order member    *)
(* mention, user mention, emoji, url; a sub-attempt that fails (its        *)
(* identity conversion or its fetch) falls through to the next one; when   *)
(* all have failed resolve goes on to the attachments and makes no further *)
(* call for the argument.                                                  *)
(***************************************************************************)
C7_ArgumentSubStrategies ==
    /\ SubOrder("argument")
    /\ (/\ IsSome(last)
        /\ Unwrap(last).strategy = "argument"
        /\ LastError \notin {"none", "ImageTooLarge"}) =>
           /\ pc # "done"
           /\ result = None
           /\ Unwrap(last).candidate = "url" => pc = "files" /\ ~arg_resolved
    /\ \A i, j \in DOMAIN log :
           (i < j /\ log[j].strategy = "argument") => log[i].strategy = "argument"

(***************************************************************************)
(* C8, as the claim has it: the member and the user conversion are never   *)
(* tried on the text of the referenced message.                            *)
(***************************************************************************)
C8_NoMentionOnReferenced ==
    \A i \in DOMAIN log :
        log[i].strategy = "referenced.content" =>
            log[i].op \notin {"Member::convert", "User::convert"}

(***************************************************************************)
(* C8, amended: when a referenced message exists and neither message gave  *)
(* an attachment, sticker or embed image, the first token of the           *)
(* referenced message goes through the same conversions as the argument,   *)
(* in the same order: member mention first, then user mention, then the    *)
(* emoji and the url strategies.                                           *)
(***************************************************************************)
C8_SameConversionsOnReferenced ==
    LET rc(i) == log[i].strategy = "referenced.content"
    IN  /\ SubOrder("referenced.content")
        /\ \A i \in DOMAIN log :
               rc(i) =>
                   /\ (i = 1 \/ ~rc(i - 1)) =>
                          /\ log[i].op = "Member::convert"
                          /\ log[i].target = token
                   /\ SubRank(log[i].candidate) >= 2 =>
                          \E j \in 1..(i - 1) :
                              rc(j) /\ log[j].op = "Member::convert"
                   /\ SubRank(log[i].candidate) >= 3 =>
                          \E j \in 1..(i - 1) :
                              rc(j) /\ log[j].op = "User::convert"
                   /\ found # <<>> =>
                          Rank(Unwrap(last).strategy) >= Rank("referenced.content")

\* the user conversion is tried on the token of the referenced message
C8_Witness ==
    \E i \in DOMAIN log :
        /\ log[i].strategy = "referenced.content"
        /\ log[i].op = "User::convert"
        /\ log[i].target = Hello

\* url holds the atom
Has(url, atom) == \E i \in DOMAIN url : url[i] = atom

\* url holds the text
HasText(url, text) ==
    \E i \in 1..(Len(url) - Len(text) + 1) :
        SubSeq(url, i, i + Len(text) - 1) = text

(***************************************************************************)
(* C9: the avatar is fetched only when no earlier strategy gave an image   *)
(* or ended resolve; it is the avatar of the guild member when the message *)
(* has a guild id and of the author otherwise; the url asks for .gif when  *)
(* the hash in effect (the member's, else the user's) starts with a_ and   *)
(* for .png otherwise.                                                     *)
(***************************************************************************)
C9_AvatarFallback ==
    /\ pc \in {"avatar", "avatar.fetch"} =>
           /\ found = <<>>
           /\ result = None
           /\ LastError # "ImageTooLarge"
    /\ (/\ IsSome(last)
        /\ Unwrap(last).strategy = "avatar"
        /\ log[Len(log)].op = "GET") =>
           LET url == log[Len(log)].target
               who == Unwrap(cur)
               hash == IF IsSome(guild_id)
                       THEN IF IsSome(who.avatar) THEN who.avatar ELSE who.user.avatar
                       ELSE who.avatar
               animated == IsSome(hash) /\ Unwrap(hash)[1] = "a_"
           IN  /\ IsSome(guild_id) <=>
                      (Len(log) >= 2 /\ log[Len(log) - 1].op = "GuildId::member")
               /\ \A i \in 1..(Len(log) - 1) :
                      log[i].strategy = "avatar" => log[i].op = "GuildId::member"
               /\ IsSome(hash) => HasText(url, Unwrap(hash))
               /\ (IsSome(guild_id) /\ IsSome(who.avatar)) <=>
                      url[1] = "https://cdn.discordapp.com/guilds/"
               /\ Has(url, ".gif") <=> animated
               /\ Has(url, ".png") <=> ~animated
               /\ ~Has(url, ".webp")

\* in a guild, the member has no avatar of its own and the user an animated
\* one: the fallback asks for the user's .gif
C9_Witness ==
    /\ pc = "done"
    /\ IsSome(guild_id)
    /\ IsSome(last) /\ Unwrap(last).strategy = "avatar"
    /\ log[Len(log)].op = "GET"
    /\ Unwrap(cur).avatar = None
    /\ Unwrap(cur).user.avatar = Some(<<"a_", "0f3c">>)
    /\ Has(log[Len(log)].target, ".gif")

(***************************************************************************)
(* C10: for a token <a?:name:id> convert_emoji takes the emoji for         *)
(* animated exactly when the a is there, takes the digits for its id, and  *)
(* fetches https://cdn.discordapp.com/emojis/{id}.gif when animated and    *)
(* https://cdn.discordapp.com/emojis/{id}.png when not.                    *)
(***************************************************************************)
C10_CustomEmojiUrl ==
    (/\ IsSome(last)
     /\ Unwrap(last).candidate = "custom_emoji"
     /\ IsSome(EMOJI_REGEX(token))) =>
        LET id == SubSeq(token, Len(token) - 15, Len(token) - 1)
            animated == token[2] = "a"
        IN  /\ convert_emoji_parse(token).animated = animated
            /\ convert_emoji_parse(token).id = Some(id)
            /\ log[Len(log)].op = "GET"
            /\ log[Len(log)].target =
                   <<"https://cdn.discordapp.com/emojis/">> \o id
                   \o <<".", IF animated THEN "gif" ELSE "png">>

(***************************************************************************)
(* C11: convert_emoji takes a bare token of 15 to 20 decimal digits as an  *)
(* emoji id that is not animated and fetches the .png url of that id; a    *)
(* token that has neither the custom emoji form nor that digit form ends   *)
(* with EmojiParseError carrying the token as it was given, and no request *)
(* is made for it.                                                         *)
(***************************************************************************)
\* the requests made for the custom emoji candidate of a strategy
EmojiCalls(strategy) ==
    SelectSeq(log, LAMBDA c : c.strategy = strategy /\ c.candidate = "custom_emoji")

C11_BareIdAndParseError ==
    (IsSome(last) /\ Unwrap(last).candidate = "custom_emoji") =>
        LET strategy == Unwrap(last).strategy
            digits == \A i \in DOMAIN token : token[i] \in Digit
            bare == digits /\ Len(token) >= 15 /\ Len(token) <= 20
            custom == IsSome(EMOJI_REGEX(token))
        IN  /\ bare =>
                /\ Len(EmojiCalls(strategy)) = 1
                /\ EmojiCalls(strategy)[1].op = "GET"
                /\ EmojiCalls(strategy)[1].target =
                       <<"https://cdn.discordapp.com/emojis/">> \o token
                       \o <<".", "png">>
            /\ (~bare /\ ~custom) =>
                /\ Unwrap(last).outcome = Err(EmojiParseError(token))
                /\ EmojiCalls(strategy) = <<>>

\* the argument was a bare id of 15 digits whose .png was requested, and the
\* token of the referenced message, hello, ended with EmojiParseError
C11_Witness ==
    /\ IsSome(last)
    /\ Unwrap(last).strategy = "referenced.content"
    /\ Unwrap(last).candidate = "custom_emoji"
    /\ token = Hello
    /\ Unwrap(last).outcome = Err(EmojiParseError(Hello))
    /\ Len(EmojiCalls("argument")) = 1
    /\ EmojiCalls("argument")[1].target =
           <<"https://cdn.discordapp.com/emojis/">> \o Snowflake \o <<".", "png">>

(***************************************************************************)
(* C12: in ImageExecutor::run a decoded sequence of more frames than       *)
(* max_frames ends the job with TooManyFrames(count, max_frames) before    *)
(* contain_size and before the function, which is never called for it; the *)
(* comparison is strict, and a sequence of exactly max_frames frames       *)
(* passes the check.                                                       *)
(***************************************************************************)
\* the frame limit of the executor
FrameLimit ==
    IF IsSome(executor.max_frames) THEN Unwrap(executor.max_frames)
    ELSE DEFAULT_MAX_FRAMES

\* the steps taken with the operation op
StepsOf(op) == SelectSeq(steps, LAMBDA st : st.op = op)

C12_TooManyFramesBeforeTransform ==
    (StepsOf("decode") # <<>> /\ StepsOf("decode")[1].ok /\ stage # "decoded") =>
        LET count == StepsOf("decode")[1].frames
        IN  /\ count > FrameLimit =>
                /\ stage = "returned"
                /\ command_result = Some(Err(TooManyFrames(count, FrameLimit)))
                /\ StepsOf("contain_size") = <<>>
                /\ StepsOf("function") = <<>>
                /\ steps[Len(steps)].op = "max_frames"
            /\ count <= FrameLimit =>
                /\ StepsOf("max_frames") # <<>>
                /\ StepsOf("max_frames")[1].ok
                /\ stage # "checked" => StepsOf("contain_size") # <<>>
                /\ ~(/\ command_result # None
                     /\ ~Unwrap(command_result).ok
                     /\ Unwrap(Unwrap(command_result).err).kind = "TooManyFrames")

\* max_frames(3) was called and five frames were decoded: TooManyFrames(5, 3)
C12_Witness ==
    /\ stage = "returned"
    /\ executor.max_frames = Some(MaxFrames)
    /\ StepsOf("decode") # <<>>
    /\ StepsOf("decode")[1].frames = MaxFrames + 2
    /\ command_result = Some(Err(TooManyFrames(MaxFrames + 2, MaxFrames)))
    /\ StepsOf("function") = <<>>

(***************************************************************************)
(* C15: the output of run is flagged animated, encoded as GIF and sent as  *)
(* output.gif exactly when the sequence the function returned has more     *)
(* than one frame, and is encoded as PNG and sent as output.png when it    *)
(* has one frame; the count is taken after the function, not from the      *)
(* decoded input.                                                          *)
(***************************************************************************)
C15_AnimatedIffManyFrames ==
    /\ IsSome(encoded) =>
           LET n == StepsOf("function")[1].frames
           IN  /\ Len(Unwrap(encoded).frames) = n
               /\ Unwrap(encoded).is_gif = (n > 1)
               /\ Unwrap(encoded).format = (IF n > 1 THEN "Gif" ELSE "Png")
    /\ \A i \in DOMAIN replies :
           replies[i].kind = "file" =>
               /\ replies[i].data = Unwrap(encoded)
               /\ replies[i].filename =
                      <<"output.", IF StepsOf("function")[1].frames > 1
                                   THEN "gif" ELSE "png">>

\* one frame was decoded, huerotate made 36 of it, and output.gif was sent
C15_Witness ==
    /\ StepsOf("decode") # <<>>
    /\ StepsOf("decode")[1].frames = 1
    /\ StepsOf("function") # <<>>
    /\ StepsOf("function")[1].frames = 36
    /\ replies # <<>>
    /\ replies[1].filename = <<"output.", "gif">>
    /\ Unwrap(encoded).is_gif

(***************************************************************************)
(* C17: no partial output: send_output sends the file only after resolve,  *)
(* the decoding, the frame count check, the resize, the function and the   *)
(* encoding have all succeeded; when resolve or the pipeline fails the     *)
(* command returns an error, error_handler reports it as text, and no      *)
(* file is sent for that invocation.                                       *)
(***************************************************************************)
Pipeline == <<"resolve", "decode", "max_frames", "contain_size", "function",
              "encode", "send_output">>

C17_NoPartialOutput ==
    /\ \A i \in DOMAIN replies :
           replies[i].kind = "file" =>
               /\ i = 1
               /\ Len(steps) >= Len(Pipeline)
               /\ \A j \in DOMAIN Pipeline :
                      steps[j].op = Pipeline[j] /\ steps[j].ok
    /\ (\E j \in DOMAIN steps : ~steps[j].ok) =>
           /\ command_result # None
           /\ ~Unwrap(command_result).ok
           /\ \A i \in DOMAIN replies : replies[i].kind # "file"
           /\ stage = "handled" =>
                  replies \in {<<>>,
                               <<Reply(to_string(Unwrap(Unwrap(command_result).err)))>>}
    /\ (stage = "handled" /\ Unwrap(command_result).ok) =>
           /\ Len(replies) = 1
           /\ replies[1].kind = "file"

\* the encoding failed and error_handler replied with the text of the error
C17_Witness ==
    /\ stage = "handled"
    /\ StepsOf("encode") # <<>>
    /\ ~StepsOf("encode")[1].ok
    /\ replies = <<Reply(to_string(RilError))>>

(***************************************************************************)
(* C13: the resize only ever shrinks: for every source and every setting   *)
(* of max_width and max_height (one, the other, or both) each frame is,    *)
(* after contain_size, no wider and no higher than it was before.          *)
(***************************************************************************)
C13_ResizeOnlyShrinks ==
    (/\ stage = "call" /\ call.fn = "contain_size" /\ IsSome(ret)
     /\ (IsSome(call.width) \/ IsSome(call.height))) =>
        \A i \in DOMAIN call.frames :
            /\ Unwrap(ret)[i].width <= call.frames[i].width
            /\ Unwrap(ret)[i].height <= call.frames[i].height

(***************************************************************************)
(* C14: resizing leaves an image within the caps alone and is idempotent:  *)
(* for an image whose dimensions are within the caps contain_size returns  *)
(* the dimensions it was given, and contain_size applied with the same     *)
(* caps to its own output changes nothing.                                 *)
(***************************************************************************)
C14_InCapUnchangedAndIdempotent ==
    (stage = "call" /\ call.fn = "contain_size" /\ IsSome(ret)) =>
        /\ (\A i \in DOMAIN call.frames :
               /\ IsSome(call.width) => call.frames[i].width <= Unwrap(call.width)
               /\ IsSome(call.height) => call.frames[i].height <= Unwrap(call.height))
           => \A i \in DOMAIN call.frames :
                  /\ Unwrap(ret)[i].width = call.frames[i].width
                  /\ Unwrap(ret)[i].height = call.frames[i].height
        /\ contain_size(Unwrap(ret), call.width, call.height) = Unwrap(ret)

(***************************************************************************)
(* C20: with exactly one of max_width and max_height set the resize        *)
(* triggers exactly when the first frame meets or exceeds that bound, and  *)
(* the target keeps the aspect ratio of the first frame: ceil(H*w/h) x H   *)
(* with only max_height = H, and W x ceil(W*h/w) with only max_width = W.  *)
(***************************************************************************)
\* ceil(a * b / c) in the integers
CeilDiv(a, b, c) == (a * b + c - 1) \div c

C20_AspectRatioKept ==
    (/\ stage = "call" /\ call.fn = "contain_size" /\ IsSome(ret)
     /\ IsSome(call.width) # IsSome(call.height)) =>
        LET w == call.frames[1].width
            h == call.frames[1].height
            triggers == IF IsSome(call.height) THEN h >= Unwrap(call.height)
                        ELSE w >= Unwrap(call.width)
        IN  \A i \in DOMAIN call.frames :
                IF ~triggers
                THEN Unwrap(ret)[i] = call.frames[i]
                ELSE IF IsSome(call.height)
                THEN /\ Unwrap(ret)[i].width = CeilDiv(Unwrap(call.height), w, h)
                     /\ Unwrap(ret)[i].height = Unwrap(call.height)
                ELSE /\ Unwrap(ret)[i].width = Unwrap(call.width)
                     /\ Unwrap(ret)[i].height = CeilDiv(Unwrap(call.width), h, w)

(***************************************************************************)
(* C18: humanize_bytes renders a size in the k-th unit of B, KB, MB, ...   *)
(* where k is the least index with size < 1024^(k+1), with two decimals;   *)
(* 16,000,000 bytes render with the unit MB.                               *)
(***************************************************************************)
\* the least k with size < 1024^(k+1), for a size in binary
UnitIndex(size) == CHOOSE k \in 0..8 : Len(size) <= 10 * (k + 1)
                                       /\ (k = 0 \/ Len(size) > 10 * k)

C16_TenorPage ==
    pc = "url" =>
        \A response \in Responses, asset_response \in Responses :
            LET a == ResolveUrlTarget(token)
                r == resolve_url(max_size, token, response, asset_response)
                is_image == /\ IsSome(response.content_type)
                            /\ Unwrap(response.content_type)[1] = "image/"
                text == Unwrap(response.body).text
                hits == {i \in DOMAIN text : IsSome(TenorAsset(text[i]))}
                first == CHOOSE i \in hits : \A j \in hits : i <= j
                url == Unwrap(TenorAsset(text[first]))
            IN  (response.send /\ response.success) =>
                    /\ is_image => ResolveUrlAsset(token, response) = None
                    /\ (~is_image /\ TENOR_PAGE_REGEX(a) /\ IsSome(response.body)) =>
                           IF hits = {}
                           THEN /\ r = Err(InvalidContentType)
                                /\ ResolveUrlAsset(token, response) = None
                           ELSE /\ ResolveUrlAsset(token, response) = Some(url)
                                /\ r = url_to_bytes(url, asset_response)
                                /\ (/\ asset_response.send /\ asset_response.success
                                    /\ IsSome(asset_response.body)) =>
                                       r = Ok(Some(Bytes(url,
                                                         Unwrap(asset_response.body).len,
                                                         asset_response.content_type)))

\* the argument was a tenor page, the page was requested, then the first
\* asset of the page, and the bytes of that asset were returned
C16_Witness ==
    /\ pc = "done"
    /\ Len(log) >= 2
    /\ log[Len(log) - 1].candidate = "url"
    /\ log[Len(log) - 1].target = TenorPage
    /\ log[Len(log)].target = AssetUrl
    /\ ReturnedImage
    /\ Image.url = AssetUrl

C22_HuerotateCycles ==
    (stage = "call" /\ call.fn = "huerotate_func" /\ IsSome(ret)) =>
        LET n == Len(call.frames)
            out == Unwrap(ret)
        IN  n >= 1 =>
                /\ Len(out) = 36
                /\ \A k \in 0..35 :
                       LET from == call.frames[(k % n) + 1]
                       IN  /\ (k % n) + 1 \in DOMAIN call.frames
                           /\ out[k + 1].id = from.id
                           /\ out[k + 1].hue = (from.hue + 10 * k) % 360
                           /\ out[k + 1].delay = from.delay
                           /\ out[k + 1].disposal = from.disposal
                           /\ out[k + 1].width = from.width
                           /\ out[k + 1].height = from.height
                /\ n > 36 => \A k \in 1..36 : out[k].id = k

\* a source of two frames gave 36 frames, the third of them the first
\* source frame rotated by 20 degrees
C22_Witness ==
    /\ stage = "call"
    /\ call.fn = "huerotate_func"
    /\ Len(call.frames) = 2
    /\ IsSome(ret)
    /\ Len(Unwrap(ret)) = 36
    /\ Unwrap(ret)[3].id = 1
    /\ Unwrap(ret)[3].hue = 20
    /\ Unwrap(ret)[36].id = 2

(***************************************************************************)
(* C24: after the resize step of run every frame of the sequence, not only *)
(* the first, is within the caps: its height is at most max_height when    *)
(* max_height is set and its width at most max_width when max_width is     *)
(* set, also when the frames of the decoded sequence differ in size.       *)
(***************************************************************************)
C24_EveryFrameWithinCaps ==
    stage = "resized" =>
        \A i \in DOMAIN image :
            /\ IsSome(executor.max_height) =>
                   image[i].height <= Unwrap(executor.max_height)
            /\ IsSome(executor.max_width) =>
                   image[i].width <= Unwrap(executor.max_width)

(***************************************************************************)
(* C25: after a successful resolve arg_resolved is false exactly when an   *)
(* argument was supplied and every sub-strategy of the argument failed,    *)
(* and true when the argument gave the image and when there was no         *)
(* argument; so caption leaves the first token out of the caption text     *)
(* only when that token was the source of the image, and otherwise takes   *)
(* all the raw arguments as the caption.                                   *)
(***************************************************************************)
\* the argument gave the image resolve returned
FromArgument == IsSome(last) /\ Unwrap(last).strategy = "argument"

DeclaresImage(attachment) ==
    /\ IsSome(attachment.content_type)
    /\ Len(Unwrap(attachment.content_type)) >= 1
    /\ Unwrap(attachment.content_type)[1] = "image/"

C27_Terminates ==
    /\ <>(pc = "done")
    /\ [](pc = "done" =>
              /\ IsSome(result)
              /\ Unwrap(result).ok => IsSome(Unwrap(result).val))
    /\ [](\A i, j \in DOMAIN log :
              i < j => /\ log[i] # log[j]
                       /\ Rank(log[i].strategy) <= Rank(log[j].strategy))

\* resolve went through the argument and the lists of both messages and
\* ended with the avatar
C27_Witness ==
    /\ pc = "done"
    /\ ReturnedImage
    /\ Unwrap(last).strategy = "avatar"
    /\ \E i \in DOMAIN log : log[i].strategy = "argument"
    /\ \E i \in DOMAIN log : log[i].strategy = "referenced.content"

(***************************************************************************)
(* C23: commands in flight at once are independent: under every            *)
(* interleaving of the awaits of two resolutions and of their blocking     *)
(* tasks, what each invocation ends with (the bytes or the error, and its  *)
(* arg_resolved) is what it ends with alone under the same answers of the  *)
(* collaborators; they share the HTTP client only, which no resolution     *)
(* changes, and each invocation runs one blocking task that calls its      *)
(* function at most once.                                                  *)
(***************************************************************************)
\* the strategy that gives an invocation its outcome when it runs alone
AloneFrom(script) ==
    IF script.has_arg /\ script.argument # "none" THEN "argument"
    ELSE IF script.message # "none" THEN "message"
    ELSE IF script.referenced # "none" THEN "referenced"
    ELSE "avatar"

\* what resolve returns to an invocation that runs alone
AloneResolved(id, script) ==
    IF script[AloneFrom(script)] = "bytes"
    THEN Ok([of |-> id, from |-> AloneFrom(script)])
    ELSE Err(FetchUrlError)

\* arg_resolved of an invocation that runs alone
AloneArgResolved(script) == ~(script.has_arg /\ script.argument = "none")

====
